---------------------------- MODULE Spec2Model ----------------------------
(***************************************************************************)
(* A model of the loop-relevance part of zigzag's LayerNode                *)
(* (src/zigzag/classes/workload/layer_node.py) and of the pipeline stages  *)
(* WorkloadStage and SpatialMappingGeneratorStage                          *)
(* (src/zigzag/classes/stages/).                                           *)
(*                                                                         *)
(* Python values are modelled as follows.                                  *)
(*   str    a sequence of one-character strings, so that substring search, *)
(*          regular expressions and upper() are computed, not assumed      *)
(*   list   a sequence                                                     *)
(*   dict   a sequence of <<key, value>> pairs in insertion order          *)
(*   a call a record [exc, ret]: exc is the name of the exception raised   *)
(*          ("" when the call returns) and ret the value returned          *)
(***************************************************************************)
EXTENDS Integers, Sequences, FiniteSets, TLC

VARIABLES
    layer_attrs,    \* the layer_attrs a LayerNode is constructed from
    node,           \* the LayerNode: its construction status and attributes
    call,           \* the last method call made: its arguments and its outcome
    kwargs,         \* the keyword arguments a pipeline stage is constructed with
    stage           \* the pipeline stage: its attributes and the position of run()

vars == <<layer_attrs, node, call, kwargs, stage>>

----------------------------------------------------------------------------
(* Bounds of the model *)

\* scaling factors of a dimension relation range over 0..MaxScale
MaxScale == 3
\* loop dimension sizes range over 1..MaxSize
MaxSize == 4

----------------------------------------------------------------------------
(* Python helpers *)

Ok(v) == [exc |-> "", ret |-> v]
Raise(e) == [exc |-> e, ret |-> 0]

Max(a, b) == IF a >= b THEN a ELSE b
Min(a, b) == IF a <= b THEN a ELSE b

\* math.gcd on non-negative integers; gcd(0, 0) = 0
RECURSIVE gcd(_, _)
gcd(a, b) == IF b = 0 THEN a ELSE gcd(b, a % b)

----------------------------------------------------------------------------
(* Python strings, lists and dicts *)

LowerCase == <<"a", "b", "c", "d", "e", "f", "g", "h", "i", "j", "k", "l", "m",
               "n", "o", "p", "q", "r", "s", "t", "u", "v", "w", "x", "y", "z">>
UpperCase == <<"A", "B", "C", "D", "E", "F", "G", "H", "I", "J", "K", "L", "M",
               "N", "O", "P", "Q", "R", "S", "T", "U", "V", "W", "X", "Y", "Z">>
DigitChars == <<"0", "1", "2", "3", "4", "5", "6", "7", "8", "9">>

\* the character class [a-zA-Z]
Letters == {LowerCase[i] : i \in 1..26} \cup {UpperCase[i] : i \in 1..26}
\* the character class \d
Digits == {DigitChars[i] : i \in 1..10}

\* str.upper()
upper_char(c) ==
    IF \E i \in 1..26 : LowerCase[i] = c
    THEN UpperCase[CHOOSE i \in 1..26 : LowerCase[i] = c]
    ELSE c
upper(s) == [i \in 1..Len(s) |-> upper_char(s[i])]

\* int(s) of a string of digits
RECURSIVE int(_)
int(s) ==
    IF s = <<>> THEN 0
    ELSE 10 * int(SubSeq(s, 1, Len(s) - 1))
         + ((CHOOSE i \in 1..10 : DigitChars[i] = s[Len(s)]) - 1)

\* re.findall("[cls]+", s): the maximal runs of characters of the class cls
RECURSIVE findall_from(_, _, _, _, _)
findall_from(cls, s, i, cur, acc) ==
    IF i > Len(s) THEN (IF cur = <<>> THEN acc ELSE Append(acc, cur))
    ELSE IF s[i] \in cls THEN findall_from(cls, s, i + 1, Append(cur, s[i]), acc)
    ELSE findall_from(cls, s, i + 1, <<>>, IF cur = <<>> THEN acc ELSE Append(acc, cur))
findall(cls, s) == findall_from(cls, s, 1, <<>>, <<>>)

\* s.replace(c, r) for a single character c
RECURSIVE replace(_, _, _)
replace(s, c, r) ==
    IF s = <<>> THEN <<>>
    ELSE (IF Head(s) = c THEN r ELSE <<Head(s)>>) \o replace(Tail(s), c, r)

\* whether sub occurs in s at the 0-based position p
occurs_at(s, sub, p) ==
    /\ p >= 0
    /\ p + Len(sub) <= Len(s)
    /\ SubSeq(s, p + 1, p + Len(sub)) = sub

\* s.index(sub): the 0-based position of the first occurrence of sub in s
index(s, sub) ==
    CHOOSE p \in 0..Len(s) :
        /\ occurs_at(s, sub, p)
        /\ \A q \in 0..(p - 1) : ~occurs_at(s, sub, q)

\* s[i] for a Python index i, negative indices counting from the end
at(s, i) == IF i >= 0 THEN s[i + 1] ELSE s[Len(s) + i + 1]

\* the 0-based end (exclusive) of the run of digits of s that starts at p
RECURSIVE digits_end(_, _)
digits_end(s, p) ==
    IF p < Len(s) /\ s[p + 1] \in Digits THEN digits_end(s, p + 1) ELSE p

\* the 0-based positions where the pattern (\d+)(?=\*name) matches in s: a run
\* of digits that reaches up to a "*" followed by name
scaling_matches(s, name) ==
    {p \in 0..(Len(s) - 1) :
        /\ s[p + 1] \in Digits
        /\ occurs_at(s, <<"*">> \o name, digits_end(s, p))}

\* a dict as its <<key, value>> pairs in insertion order
DictHas(d, k) == \E i \in 1..Len(d) : d[i][1] = k
DictGet(d, k) == d[CHOOSE i \in 1..Len(d) : d[i][1] = k][2]
DictSet(d, k, v) ==
    IF DictHas(d, k)
    THEN [i \in 1..Len(d) |-> IF d[i][1] = k THEN <<k, v>> ELSE d[i]]
    ELSE Append(d, <<k, v>>)
DictKeys(d) == [i \in 1..Len(d) |-> d[i][1]]
DictValues(d) == [i \in 1..Len(d) |-> d[i][2]]

\* the elements of a list, as a set
ToSet(l) == {l[i] : i \in 1..Len(l)}

\* [x for x in l if x in keep]
RECURSIVE filter(_, _)
filter(l, keep) ==
    IF l = <<>> THEN <<>>
    ELSE (IF Head(l) \in keep THEN <<Head(l)>> ELSE <<>>) \o filter(Tail(l), keep)

----------------------------------------------------------------------------
(* LayerNode.extract_pr_loop_info *)

\* lines 272-281: the scaling factor of the generator val_lower in relation
scaling_factor(relation, val_lower) ==
    LET idx == index(relation, val_lower) IN
    IF at(relation, idx - 1) = "*"
    THEN IF at(relation, idx - 2) \notin Digits
         THEN Raise("NotImplementedError")
         ELSE LET ms == scaling_matches(relation, val_lower) IN
              IF ms = {} THEN Raise("IndexError")
              ELSE LET p == CHOOSE m \in ms : \A n \in ms : m <= n IN
                   Ok(int(SubSeq(relation, p + 1, digits_end(relation, p))))
    ELSE Ok(1)

\* lines 271-281: the dict scaling_factors of one relation, keyed by the
\* generators as written in the relation
scaling_factors_of(relation_disassembly, sf1, sf2) ==
    DictSet(DictSet(<<>>, relation_disassembly[2], sf1.ret),
            relation_disassembly[3], sf2.ret)

\* lines 264-283: the entries of one relation, given its three identifiers and
\* the outcomes sf1, sf2 of reading the two scaling factors
relation_entries(relation_disassembly, sf1, sf2, acc) ==
    IF sf1.exc # "" THEN sf1
    ELSE IF sf2.exc # "" THEN sf2
    ELSE IF Len(scaling_factors_of(relation_disassembly, sf1, sf2)) # 2
    THEN Raise("AssertionError")
    ELSE Ok([pr_loop |->
                 DictSet(acc.pr_loop, upper(relation_disassembly[1]),
                         <<upper(relation_disassembly[2]), upper(relation_disassembly[3])>>),
             pr_loop_list |->
                 acc.pr_loop_list
                 \o <<upper(relation_disassembly[1]), upper(relation_disassembly[2]),
                      upper(relation_disassembly[3])>>,
             pr_scaling_factors |->
                 DictSet(acc.pr_scaling_factors, upper(relation_disassembly[1]),
                         scaling_factors_of(relation_disassembly, sf1, sf2))])

\* lines 260-262 and 272: the assertion on the three identifiers of a relation
disassembled_relation(relation, relation_disassembly, acc) ==
    IF Len(relation_disassembly) # 3 THEN Raise("AssertionError")
    ELSE relation_entries(relation_disassembly,
                          scaling_factor(relation, relation_disassembly[2]),
                          scaling_factor(relation, relation_disassembly[3]), acc)

\* lines 258-283: one relation, added to the dicts built so far
extract_one_relation(relation, acc) ==
    disassembled_relation(relation, findall(Letters, relation), acc)

\* lines 257-285: the loop over the relations; r is the outcome of the
\* relations before the i-th
RECURSIVE extract_relations_from(_, _, _)
extract_relations_from(equation_relations, i, r) ==
    IF r.exc # "" \/ i > Len(equation_relations) THEN r
    ELSE extract_relations_from(equation_relations, i + 1,
                                extract_one_relation(equation_relations[i], r.ret))

extract_pr_loop_info(equation_relations) ==
    extract_relations_from(equation_relations, 1,
        Ok([pr_loop |-> <<>>, pr_loop_list |-> <<>>, pr_scaling_factors |-> <<>>]))

\* lines 157-163
build_pr_funcs(dimension_relations) ==
    IF Len(dimension_relations) > 0
    THEN extract_pr_loop_info(dimension_relations)
    ELSE Ok([pr_loop |-> <<>>, pr_loop_list |-> <<>>, pr_scaling_factors |-> <<>>])

----------------------------------------------------------------------------
(* LayerNode.extract_r_ir_loop_info *)

\* the character class [a-zA-Z,0-9,=,*,+] of line 297
EquationChars == Letters \cup Digits \cup {",", "=", "*", "+"}

\* lines 294-297: the tokens of the equation
equation_tokens(equation) ==
    findall(EquationChars,
        replace(replace(replace(equation, "*", <<" ", "*", " ">>),
                        "=", <<" ", "=", " ">>),
                "+", <<" ", "+", " ">>))

\* list.pop(i) for a 0-based i
pop(l, i) == SubSeq(l, 1, i) \o SubSeq(l, i + 2, Len(l))

\* lines 299-303: the loop that pops a "+" that directly precedes "=" or "+".
\* It pops from the list it iterates over: after a pop the iteration goes on at
\* index i + 1 of the shortened list. prev_char starts as None (here <<>>).
RECURSIVE filter_plus(_, _, _)
filter_plus(l, i, prev_char) ==
    IF i >= Len(l) THEN l
    ELSE LET char == l[i + 1] IN
         IF (char = <<"=">> \/ char = <<"+">>) /\ prev_char = <<"+">>
         THEN filter_plus(pop(l, i - 1), i + 1, char)
         ELSE filter_plus(l, i + 1, char)

equation_disassembly(equation) == filter_plus(equation_tokens(equation), 0, <<>>)

\* lines 304-306: the 0-based positions of "=", "*", "+" and the length
RECURSIVE split_location_from(_, _)
split_location_from(l, i) ==
    IF i >= Len(l) THEN <<Len(l)>>
    ELSE (IF l[i + 1] \in {<<"=">>, <<"*">>, <<"+">>} THEN <<i>> ELSE <<>>)
         \o split_location_from(l, i + 1)
split_location(l) == split_location_from(l, 0)

\* [loop_dim.upper() for loop_dim in l[begin:end]] for 0-based begin, end
upper_slice(l, begin, end) ==
    [i \in 1..Max(0, Min(end, Len(l)) - begin) |-> upper(l[begin + i])]

\* lines 315-328: the entry of one operand. The irrelevant dimensions are
\* built from a set difference (line 315): their order is that of a Python set
\* and is not modelled, IR is a set. For an operand that holds a
\* partially-relevant key, R is not filtered on size 1 (line 320; the filter of
\* line 319 is commented out) and PR is the whole pr_loop of the layer (line 324).
operand_entry(r_loop_list, dimension_list, size_not_1, pr_loop, pr_loop_list) ==
    IF \E i \in 1..Len(r_loop_list) : DictHas(pr_loop, r_loop_list[i])
    THEN Ok([R |-> filter(r_loop_list, ToSet(r_loop_list) \ ToSet(pr_loop_list)),
             IR |-> ((ToSet(dimension_list) \ ToSet(r_loop_list)) \ ToSet(pr_loop_list))
                    \cap size_not_1,
             PR |-> pr_loop])
    ELSE IF ~(ToSet(r_loop_list) \subseteq ToSet(dimension_list))
    THEN Raise("KeyError")
    ELSE Ok([R |-> filter(r_loop_list, size_not_1),
             IR |-> (ToSet(dimension_list) \ ToSet(r_loop_list)) \cap size_not_1,
             PR |-> <<>>])

\* the dimensions d with loop_dim_size[d] != 1
dims_not_1(loop_dim_size) ==
    {loop_dim_size[i][1] : i \in {j \in 1..Len(loop_dim_size) : loop_dim_size[j][2] # 1}}

\* lines 312-313, 329-332: the operand and its entry are recorded
operand_recorded(operand, r_loop_list, entry, acc) ==
    IF entry.exc # "" THEN entry
    ELSE Ok([operand_loop_dim |-> DictSet(acc.operand_loop_dim, operand, entry.ret),
             operand_list |-> Append(acc.operand_list, operand),
             operand_dimensionality_order |->
                 DictSet(acc.operand_dimensionality_order, operand, r_loop_list)])

\* lines 311-332: one operand segment
one_operand(l, begin_idx, split_loc, loop_dim_size, pr, acc) ==
    IF begin_idx >= Len(l) THEN Raise("IndexError")
    ELSE operand_recorded(l[begin_idx + 1], upper_slice(l, begin_idx + 1, split_loc),
             operand_entry(upper_slice(l, begin_idx + 1, split_loc),
                           DictKeys(loop_dim_size), dims_not_1(loop_dim_size),
                           pr.pr_loop, pr.pr_loop_list),
             acc)

\* lines 308-332: the loop over the split locations; r is the outcome of the
\* segments before the j-th
RECURSIVE operands_from(_, _, _, _, _, _, _)
operands_from(l, splits, j, begin_idx, loop_dim_size, pr, r) ==
    IF r.exc # "" \/ j > Len(splits) THEN r
    ELSE operands_from(l, splits, j + 1, splits[j] + 1, loop_dim_size, pr,
                       one_operand(l, begin_idx, splits[j], loop_dim_size, pr, r.ret))

\* pr_data_dim + "_r" and pr_data_dim + "_ir" of lines 340-341
suffixed(keys, suffix) == [i \in 1..Len(keys) |-> keys[i] \o suffix]

\* lines 336-343: the reformed view, without the PR dict
reform(operand_loop_dim, pr_loop) ==
    [i \in 1..Len(operand_loop_dim) |->
        <<operand_loop_dim[i][1],
          IF operand_loop_dim[i][2].PR # <<>>
          THEN [R |-> operand_loop_dim[i][2].R
                      \o suffixed(DictKeys(pr_loop), <<"_", "r">>),
                IR |-> operand_loop_dim[i][2].IR
                       \cup ToSet(suffixed(DictKeys(pr_loop), <<"_", "i", "r">>))]
          ELSE [R |-> operand_loop_dim[i][2].R, IR |-> operand_loop_dim[i][2].IR]>>]

\* line 345: the four values returned
r_ir_loop_info(r, pr_loop) ==
    IF r.exc # "" THEN r
    ELSE Ok([operand_loop_dim |-> r.ret.operand_loop_dim,
             operand_loop_dim_reform |-> reform(r.ret.operand_loop_dim, pr_loop),
             operand_list |-> r.ret.operand_list,
             operand_dimensionality_order |-> r.ret.operand_dimensionality_order])

\* lines 304-332: the operand segments of the disassembled equation
disassembled_equation(l, loop_dim_size, pr_loop, pr_loop_list) ==
    r_ir_loop_info(
        operands_from(l, split_location(l), 1, 0, loop_dim_size,
            [pr_loop |-> pr_loop, pr_loop_list |-> pr_loop_list],
            Ok([operand_loop_dim |-> <<>>, operand_list |-> <<>>,
                operand_dimensionality_order |-> <<>>])),
        pr_loop)

\* lines 287-345
extract_r_ir_loop_info(equation, loop_dim_size, pr_loop, pr_loop_list) ==
    disassembled_equation(equation_disassembly(equation), loop_dim_size,
                          pr_loop, pr_loop_list)

----------------------------------------------------------------------------
(* LayerNode.calc_pr_dimension_size *)

\* the formula with the factor (A - sb/g) replaced by A
calc_pr_dimension_size_no_sb(sa, A, sb, B) ==
    LET g == gcd(sa, sb) IN
    IF g = 0 THEN Raise("ZeroDivisionError")
    ELSE Ok(A * B - Max(0, B - (sa \div g)) * A)

\* the formula guarded by a check that rejects a zero scaling factor
calc_pr_dimension_size_rejecting_zero(sa, A, sb, B) ==
    LET g == gcd(sa, sb) IN
    IF sa = 0 \/ sb = 0 THEN Raise("ZeroDivisionError")
    ELSE Ok(A * B - Max(0, B - (sa \div g)) * (A - (sb \div g)))

\* int(A * B - max(0, B - (sa / gcd(sa, sb))) * (A - (sb / gcd(sa, sb))))
\* sa / gcd and sb / gcd are exact (gcd divides both), so the float division
\* is an integer division on the bounded values of the model; a gcd of 0
\* makes the division raise.
calc_pr_dimension_size(sa, A, sb, B) ==
    LET g == gcd(sa, sb) IN
    IF g = 0 THEN Raise("ZeroDivisionError")
    ELSE Ok(A * B - Max(0, B - (sa \div g)) * (A - (sb \div g)))

----------------------------------------------------------------------------
(* LayerNode.calc_tensor_dim, calc_tensor_dims, calc_pr_dimension_size_total *)

\* the pairing of line 204 done crosswise: each scaling factor with the size
\* of the other generator
zip_flat_crossed(scaling_factors, related_dimension_sizes) ==
    <<scaling_factors[1], related_dimension_sizes[2],
      scaling_factors[2], related_dimension_sizes[1]>>

\* lines 204 and 234: (val for pair in zip(scaling_factors, sizes) for val in pair)
zip_flat(scaling_factors, related_dimension_sizes) ==
    <<scaling_factors[1], related_dimension_sizes[1],
      scaling_factors[2], related_dimension_sizes[2]>>

\* line 207 without the clip to the total size
clip_none(total, pr_dim_size) == pr_dim_size

\* line 207: min(self.pr_loop_dim_size[dim], pr_dim_size)
clip(total, pr_dim_size) == Min(total, pr_dim_size)

\* lines 201-205 and 231-235: the assertion on the two lists, and the call
pr_dimension_size_args(scaling_factors, related_dimension_sizes) ==
    IF ~(Len(related_dimension_sizes) = 2 /\ Len(scaling_factors) = 2)
    THEN Raise("AssertionError")
    ELSE calc_pr_dimension_size(zip_flat(scaling_factors, related_dimension_sizes)[1],
                                zip_flat(scaling_factors, related_dimension_sizes)[2],
                                zip_flat(scaling_factors, related_dimension_sizes)[3],
                                zip_flat(scaling_factors, related_dimension_sizes)[4])

\* [loop_sizes[dimension] for dimension in gens], lines 199 and 229
sizes_of(loop_sizes, gens) == [i \in 1..Len(gens) |-> DictGet(loop_sizes, gens[i])]

\* lines 199-205 and 229-235: calc_pr_dimension_size on the scaling factors of
\* dim and the sizes that loop_sizes gives its two generators
pr_dimension_size_of(self, loop_sizes, dim) ==
    IF \E i \in 1..Len(DictGet(self.pr_loop, dim)) :
           ~DictHas(loop_sizes, DictGet(self.pr_loop, dim)[i])
    THEN Raise("KeyError")
    ELSE pr_dimension_size_args(DictValues(DictGet(self.pr_scaling_factors, dim)),
                                sizes_of(loop_sizes, DictGet(self.pr_loop, dim)))

\* lines 206-208: the size r computed for dim, clipped to pr_loop_dim_size[dim]
clipped(self, dim, r) ==
    IF r.exc # "" THEN r
    ELSE IF ~DictHas(self.pr_loop_dim_size, dim) THEN Raise("KeyError")
    ELSE Ok(clip(DictGet(self.pr_loop_dim_size, dim), r.ret))

\* lines 195-215
calc_tensor_dim(self, loop_sizes, dim) ==
    IF DictHas(loop_sizes, dim) THEN Ok(DictGet(loop_sizes, dim))
    ELSE IF DictHas(self.pr_loop, dim)
    THEN clipped(self, dim, pr_dimension_size_of(self, loop_sizes, dim))
    ELSE IF DictHas(self.loop_dim_size, dim) THEN
        IF DictGet(self.loop_dim_size, dim) = 1 THEN Ok(1) ELSE Raise("AssertionError")
    ELSE Raise("ValueError")

\* line 238: int(total_pr_dim_size - sum(padding))
subtract_padding(total_pr_dim_size, padding) ==
    total_pr_dim_size - (padding[1] + padding[2])

\* lines 236-239: r is the outcome of calc_pr_dimension_size
without_padding(self, dim, r) ==
    IF r.exc # "" THEN r
    ELSE Ok(subtract_padding(r.ret,
                IF DictHas(self.padding, dim) THEN DictGet(self.padding, dim)
                ELSE <<0, 0>>))

\* lines 224-239
calc_pr_dimension_size_total(self, dim) ==
    without_padding(self, dim, pr_dimension_size_of(self, self.loop_dim_size, dim))

\* a dict comprehension {k: f(k) for k in keys}, f given as the list of the
\* outcomes of its calls: the first exception raised, or the dict
RECURSIVE dict_of_calls(_, _, _, _)
dict_of_calls(keys, outs, i, acc) ==
    IF i > Len(keys) THEN Ok(acc)
    ELSE IF outs[i].exc # "" THEN outs[i]
    ELSE dict_of_calls(keys, outs, i + 1, DictSet(acc, keys[i], outs[i].ret))

\* lines 218-222: the dims of the operand, each with its calc_tensor_dim
tensor_dims_of(self, loop_sizes, dims) ==
    dict_of_calls(dims, [i \in 1..Len(dims) |-> calc_tensor_dim(self, loop_sizes, dims[i])],
                  1, <<>>)

\* lines 217-222
calc_tensor_dims(self, layer_op, loop_sizes) ==
    tensor_dims_of(self, loop_sizes,
                   DictGet(self.operand_loop_dim, layer_op).R
                   \o DictKeys(DictGet(self.operand_loop_dim, layer_op).PR))

\* math.prod of a list
RECURSIVE prod(_)
prod(l) == IF l = <<>> THEN 1 ELSE Head(l) * prod(Tail(l))

----------------------------------------------------------------------------
(* LayerNode.extract_layer_info *)

\* lines 360-365: the size in elements of one operand, dims being the outcome
\* of calc_tensor_dims(operand, self.loop_dim_size), called when the operand
\* has partially-relevant dimensions
size_elem_from(self, relevancy, dims) ==
    IF \E i \in 1..Len(relevancy.R) : ~DictHas(self.loop_dim_size, relevancy.R[i])
    THEN Raise("KeyError")
    ELSE IF Len(relevancy.PR) > 0 /\ dims.exc # "" THEN dims
    ELSE Ok(prod(sizes_of(self.loop_dim_size, relevancy.R))
            * prod(sizes_of(dims.ret, DictKeys(relevancy.PR))))

operand_size_elem_of(self, operand) ==
    size_elem_from(self, DictGet(self.operand_loop_dim, operand),
                   calc_tensor_dims(self, operand, self.loop_dim_size))

\* lines 367-379, given the sizes in elements. The data reuse factor
\* total_MAC_count / size is a float in the code; it is kept as the pair
\* <<total_MAC_count, size>>, and a size of 0 raises.
layer_info_from(self, total_MAC_count, sizes) ==
    IF sizes.exc # "" THEN sizes
    ELSE IF \E i \in 1..Len(sizes.ret) : ~DictHas(self.operand_precision, sizes.ret[i][1])
    THEN Raise("KeyError")
    ELSE IF \E i \in 1..Len(sizes.ret) : sizes.ret[i][2] = 0
    THEN Raise("ZeroDivisionError")
    ELSE Ok([total_MAC_count |-> total_MAC_count,
             operand_size_elem |-> sizes.ret,
             operand_size_bit |->
                 [i \in 1..Len(sizes.ret) |->
                     <<sizes.ret[i][1],
                       sizes.ret[i][2] * DictGet(self.operand_precision, sizes.ret[i][1])>>],
             operand_data_reuse |->
                 [i \in 1..Len(sizes.ret) |->
                     <<sizes.ret[i][1], <<total_MAC_count, sizes.ret[i][2]>> >>]])

\* lines 358-365: the sizes in elements of the operands
operand_sizes(self, operands) ==
    dict_of_calls(operands,
        [i \in 1..Len(operands) |-> operand_size_elem_of(self, operands[i])], 1, <<>>)

\* lines 347-379
extract_layer_info(self) ==
    layer_info_from(self, prod(DictValues(self.loop_dim_size)),
                    operand_sizes(self, DictKeys(self.operand_loop_dim)))

----------------------------------------------------------------------------
(* The layer before construction, and no call made *)

NoAttrs == [equation |-> <<>>, loop_dim_size |-> <<>>, pr_loop_dim_size |-> <<>>,
            operand_precision |-> <<>>, dimension_relations |-> <<>>,
            constant_operands |-> <<>>, padding |-> <<>>,
            has_equation_relations |-> FALSE]
NoNode == [status |-> "none"]
NoCall == [op |-> "none"]
NoKwargs == [class |-> "none"]
NoStage == [class |-> "none"]

\* the caller takes the value returned, or the exception raised; the code is
\* single-threaded, so a call is made only when none is outstanding
Return ==
    /\ call.op # "none"
    /\ call' = NoCall
    /\ UNCHANGED <<layer_attrs, node, kwargs, stage>>

----------------------------------------------------------------------------
(* LayerNode.__init__ *)

\* lines 75-155. layer_attrs is a record that holds the attributes the
\* constructor reads; pr_loop_dim_size = <<>> stands for an absent or empty
\* pr_loop_dim_size (line 129 treats both alike). The attributes that take no
\* part in the loop-relevance model (mappings, core allocation, memory links,
\* storage levels) are left out.
\* lines 103-123: the attributes copied from layer_attrs
init_attributes(attrs) ==
    [equation |-> attrs.equation,
     loop_dim_size |-> attrs.loop_dim_size,
     pr_loop_dim_size |-> attrs.pr_loop_dim_size,
     operand_precision |-> attrs.operand_precision,
     dimension_relations |-> attrs.dimension_relations,
     loop_dim_list |-> DictKeys(attrs.loop_dim_size),
     constant_operands |-> attrs.constant_operands,
     padding |-> attrs.padding]

\* lines 154-155: step 3, and the node is complete
init_layer_info(self, info) ==
    IF info.exc # "" THEN info ELSE Ok(info.ret @@ self)

\* line 155: self is the outcome of the steps before
init_layer_info_step(self) ==
    IF self.exc # "" THEN self
    ELSE init_layer_info(self.ret, extract_layer_info(self.ret))

\* lines 139-152: the operands; rir is the outcome of extract_r_ir_loop_info
init_operands(self, rir) ==
    IF rir.exc # "" THEN rir
    ELSE Ok(
         [operand_loop_dim |-> rir.ret.operand_loop_dim,
          operand_loop_dim_reform |-> rir.ret.operand_loop_dim_reform,
          output_operand |-> rir.ret.operand_list[1],
          input_operands |-> Tail(rir.ret.operand_list),
          operand_list |-> rir.ret.operand_list,
          operand_dimensionality_order |-> rir.ret.operand_dimensionality_order,
          variable_input_operands |->
              filter(Tail(rir.ret.operand_list),
                     ToSet(rir.ret.operand_list) \ ToSet(self.constant_operands))]
         @@ self)

\* lines 132-155: steps 2 and 3; sizes is the outcome of computing
\* pr_loop_dim_size
init_relevance(self, pr_loop_list, sizes) ==
    IF sizes.exc # "" THEN sizes
    ELSE init_layer_info_step(
             init_operands([pr_loop_dim_size |-> sizes.ret] @@ self,
                 extract_r_ir_loop_info(self.equation, self.loop_dim_size,
                                        self.pr_loop, pr_loop_list)))

\* line 130: {dim: self.calc_pr_dimension_size_total(dim) for dim in pr_loop}
pr_loop_dim_sizes(self, keys) ==
    dict_of_calls(keys,
        [i \in 1..Len(keys) |-> calc_pr_dimension_size_total(self, keys[i])], 1, <<>>)

\* lines 127-130: pr_loop_dim_size is computed when it is None or empty
init_pr_sizes(self, pr_loop_list) ==
    init_relevance(self, pr_loop_list,
        IF Len(self.pr_loop_dim_size) = 0
        THEN pr_loop_dim_sizes(self, DictKeys(self.pr_loop))
        ELSE Ok(self.pr_loop_dim_size))

\* lines 126-128: step 1; pr is the outcome of build_pr_funcs
init_pr(self, pr) ==
    IF pr.exc # "" THEN pr
    ELSE init_pr_sizes([pr_loop |-> pr.ret.pr_loop,
                        pr_scaling_factors |-> pr.ret.pr_scaling_factors] @@ self,
                       pr.ret.pr_loop_list)

LayerNode_init(attrs) ==
    IF attrs.has_equation_relations THEN Raise("ValueError")
    ELSE init_pr(init_attributes(attrs), build_pr_funcs(attrs.dimension_relations))

----------------------------------------------------------------------------
(* The layers the model constructs *)

\* further bounds: the coefficients of the dimension relations range over
\* 1..MaxCoef, the padding on each side of a dimension over 0..MaxPad
MaxCoef == 2
MaxPad == 1

\* layer dimensions and operands, as Python strings
dim_B == <<"B">>
dim_C == <<"C">>
dim_K == <<"K">>
dim_OX == <<"O", "X">>
dim_OY == <<"O", "Y">>
dim_FX == <<"F", "X">>
dim_FY == <<"F", "Y">>
dim_IX == <<"I", "X">>
dim_IY == <<"I", "Y">>
dim_Z == <<"Z">>
op_O == <<"O">>
op_W == <<"W">>
op_I == <<"I">>
op_J == <<"J">>

\* str(n) for 0 <= n <= 9
str(n) == <<DigitChars[n + 1]>>

\* the relations 'ix=ox+fx' (coefficient 1 implicit), 'ix=<c2>*ox+<c3>*fx'
\* and 'iy=oy+fy'
Rel_ix_implicit == <<"i", "x", "=", "o", "x", "+", "f", "x">>
Rel_ix(c2, c3) ==
    <<"i", "x", "=">> \o str(c2) \o <<"*", "o", "x", "+">> \o str(c3) \o <<"*", "f", "x">>
Rel_iy_implicit == <<"i", "y", "=", "o", "y", "+", "f", "y">>
RelationsIX == {<<Rel_ix_implicit>>} \cup {<<Rel_ix(c2, c3)>> : c2, c3 \in 1..MaxCoef}

\* the paddings given for one dimension: none, or (before, after)
Paddings(dim) ==
    {<<>>} \cup {<< <<dim, <<before, after>> >> >> : before, after \in 0..MaxPad}

Precision8(operands) == [i \in 1..Len(operands) |-> <<operands[i], 8>>]

\* a 1-D convolution, the accumulate form of the docstring (lines 45-51)
Eq_conv1d == <<"O", "[", "b", "]", "[", "k", "]", "[", "o", "x", "]", "+", "=", "W", "[", "k", "]", "[", "f", "x", "]", "*", "I", "[", "b", "]", "[", "i", "x", "]">>
Conv1dLayers ==
    {[equation |-> Eq_conv1d,
      loop_dim_size |-> << <<dim_B, b>>, <<dim_K, 2>>, <<dim_OX, ox>>, <<dim_FX, fx>> >>,
      pr_loop_dim_size |-> <<>>,
      operand_precision |-> Precision8(<<op_O, op_W, op_I>>),
      dimension_relations |-> rel,
      constant_operands |-> <<op_W>>,
      padding |-> pad,
      has_equation_relations |-> FALSE] :
        b \in 1..2, ox \in 1..MaxSize, fx \in 1..MaxSize,
        rel \in RelationsIX, pad \in Paddings(dim_IX)}

\* the same convolution with pr_loop_dim_size supplied by the user
Conv1dSuppliedLayers ==
    {[equation |-> Eq_conv1d,
      loop_dim_size |-> << <<dim_B, 2>>, <<dim_K, 2>>, <<dim_OX, 4>>, <<dim_FX, 3>> >>,
      pr_loop_dim_size |-> << <<dim_IX, ix>> >>,
      operand_precision |-> Precision8(<<op_O, op_W, op_I>>),
      dimension_relations |-> <<Rel_ix_implicit>>,
      constant_operands |-> <<op_W>>,
      padding |-> pad,
      has_equation_relations |-> FALSE] :
        ix \in 1..MaxSize, pad \in Paddings(dim_IX)}

\* a 2-D convolution: one operand holds both partially-relevant keys
Eq_conv2d == <<"O", "[", "o", "x", "]", "[", "o", "y", "]", "=", "W", "[", "f", "x", "]", "[", "f", "y", "]", "*", "I", "[", "i", "x", "]", "[", "i", "y", "]">>
\* two relations, each input operand holds one partially-relevant key
Eq_split == <<"O", "[", "o", "x", "]", "[", "o", "y", "]", "=", "W", "[", "f", "x", "]", "[", "f", "y", "]", "*", "I", "[", "i", "x", "]", "*", "J", "[", "i", "y", "]">>
Conv2dLayers ==
    {[equation |-> eq,
      loop_dim_size |-> << <<dim_OX, ox>>, <<dim_OY, oy>>, <<dim_FX, fx>>, <<dim_FY, 2>> >>,
      pr_loop_dim_size |-> <<>>,
      operand_precision |-> Precision8(<<op_O, op_W, op_I, op_J>>),
      dimension_relations |-> <<Rel_ix_implicit, Rel_iy_implicit>>,
      constant_operands |-> <<op_W>>,
      padding |-> pad \o << <<dim_IY, <<0, 1>> >> >>,
      has_equation_relations |-> FALSE] :
        eq \in {Eq_conv2d, Eq_split},
        ox \in 1..MaxSize, oy \in 1..2, fx \in 1..2, pad \in Paddings(dim_IX)}

\* a matrix multiplication: no dimension relation
Eq_matmul == <<"O", "[", "b", "]", "[", "k", "]", "+", "=", "W", "[", "k", "]", "[", "c", "]", "*", "I", "[", "b", "]", "[", "c", "]">>
MatmulLayers ==
    {[equation |-> Eq_matmul,
      loop_dim_size |-> << <<dim_B, b>>, <<dim_K, k>>, <<dim_C, c>> >>,
      pr_loop_dim_size |-> <<>>,
      operand_precision |-> Precision8(<<op_O, op_W, op_I>>),
      dimension_relations |-> <<>>,
      constant_operands |-> <<op_W>>,
      padding |-> <<>>,
      has_equation_relations |-> FALSE] :
        b \in 1..2, k \in 1..2, c \in 1..2}

\* a layer that still has the replaced attribute equation_relations (line 82)
LegacyLayers ==
    {[equation |-> Eq_conv1d,
      loop_dim_size |-> << <<dim_B, 1>>, <<dim_K, 2>>, <<dim_OX, 4>>, <<dim_FX, 3>> >>,
      pr_loop_dim_size |-> <<>>,
      operand_precision |-> Precision8(<<op_O, op_W, op_I>>),
      dimension_relations |-> <<>>,
      constant_operands |-> <<op_W>>,
      padding |-> <<>>,
      has_equation_relations |-> TRUE]}

\* relations that are not 'target = generator + generator' with a digit before
\* every '*': too few or too many identifiers, the same generator twice (as
\* written, or in another letter case), a '*' without a coefficient
Rel_one_generator == <<"i", "x", "=", "o", "x">>
Rel_three_generators == <<"i", "x", "=", "o", "x", "+", "f", "x", "+", "k">>
Rel_same_generator == <<"i", "x", "=", "o", "x", "+", "o", "x">>
Rel_same_generator_upper == <<"i", "x", "=", "o", "x", "+", "O", "X">>
Rel_star_first == <<"i", "x", "=", "*", "o", "x", "+", "f", "x">>
Rel_star_second == <<"i", "x", "=", "o", "x", "+", "*", "f", "x">>
Rel_star_x == <<"i", "x", "=", "o", "x", "+", "*", "x">>
MalformedRelations ==
    {Rel_one_generator, Rel_three_generators, Rel_same_generator,
     Rel_same_generator_upper, Rel_star_first, Rel_star_second}

\* the 1-D convolution with one of these relations
MalformedLayers ==
    {[equation |-> Eq_conv1d,
      loop_dim_size |-> << <<dim_B, 2>>, <<dim_K, 2>>, <<dim_OX, ox>>, <<dim_FX, 3>> >>,
      pr_loop_dim_size |-> <<>>,
      operand_precision |-> Precision8(<<op_O, op_W, op_I>>),
      dimension_relations |-> <<rel>>,
      constant_operands |-> <<op_W>>,
      padding |-> <<>>,
      has_equation_relations |-> FALSE] :
        ox \in 1..MaxSize, rel \in MalformedRelations}

\* a layer with a dimension X: the generator x of 'ix=ox+*x' is also the
\* last letter of the target ix and of the generator ox
dim_X == <<"X">>
Eq_x == <<"O", "[", "o", "x", "]", "[", "x", "]", "=", "W", "[", "x", "]", "*", "I", "[", "i", "x", "]">>
\* the relation 'ix=<c2>*ox+<c3>*x'
Rel_x(c2, c3) ==
    <<"i", "x", "=">> \o str(c2) \o <<"*", "o", "x", "+">> \o str(c3) \o <<"*", "x">>
SubstringLayers ==
    {[equation |-> Eq_x,
      loop_dim_size |-> << <<dim_OX, ox>>, <<dim_X, 3>> >>,
      pr_loop_dim_size |-> <<>>,
      operand_precision |-> Precision8(<<op_O, op_W, op_I>>),
      dimension_relations |-> <<rel>>,
      constant_operands |-> <<op_W>>,
      padding |-> <<>>,
      has_equation_relations |-> FALSE] :
        ox \in 1..MaxSize,
        rel \in {Rel_star_x} \cup {Rel_x(c2, c3) : c2, c3 \in 1..MaxCoef}}

\* an elementwise sum of three operands, the second without an index,
\* written with '+' and as a concatenation with '++'; the same with two
\* operands that both carry an index
op_A == <<"A">>
op_B == <<"B">>
op_C == <<"C">>
Eq_add3 == <<"O", "[", "k", "]", "=", "A", "[", "k", "]", "+", "B", "+", "C", "[", "k", "]">>
Eq_concat3 == <<"O", "[", "k", "]", "=", "A", "[", "k", "]", "+", "+", "B", "+", "C", "[", "k", "]">>
Eq_add2 == <<"O", "[", "k", "]", "=", "A", "[", "k", "]", "+", "B", "[", "k", "]">>
Eq_concat2 == <<"O", "[", "k", "]", "=", "A", "[", "k", "]", "+", "+", "B", "[", "k", "]">>
ConcatLayers ==
    {[equation |-> eq,
      loop_dim_size |-> << <<dim_K, k>>, <<dim_C, c>> >>,
      pr_loop_dim_size |-> <<>>,
      operand_precision |-> Precision8(<<op_O, op_A, op_B, op_C>>),
      dimension_relations |-> <<>>,
      constant_operands |-> <<>>,
      padding |-> <<>>,
      has_equation_relations |-> FALSE] :
        eq \in {Eq_add3, Eq_concat3, Eq_add2, Eq_concat2},
        k \in 1..MaxSize, c \in 1..2}

Layers ==
    Conv1dLayers \cup Conv1dSuppliedLayers \cup Conv2dLayers \cup MatmulLayers
    \cup LegacyLayers \cup MalformedLayers \cup SubstringLayers \cup ConcatLayers

----------------------------------------------------------------------------
(* Spec: a LayerNode is constructed, then its methods are called *)

Init ==
    /\ layer_attrs \in Layers
    /\ node = NoNode
    /\ call = NoCall
    /\ kwargs = NoKwargs
    /\ stage = NoStage

\* LayerNode(layer_id, layer_attrs)
Construct ==
    /\ node.status = "none"
    /\ LET r == LayerNode_init(layer_attrs) IN
       node' = IF r.exc # "" THEN [status |-> "error", exc |-> r.exc]
               ELSE [status |-> "constructed", exc |-> ""] @@ r.ret
    /\ UNCHANGED <<layer_attrs, call, kwargs, stage>>

\* the loop_sizes a caller passes for dim: sizes for the two generators of a
\* partially-relevant dim, the layer's own sizes, or nothing
LoopSizesFor(dim) ==
    {<<>>, node.loop_dim_size}
    \cup (IF DictHas(node.pr_loop, dim)
          THEN {DictSet(DictSet(<<>>, DictGet(node.pr_loop, dim)[1], a),
                        DictGet(node.pr_loop, dim)[2], b) : a, b \in 1..MaxSize}
          ELSE {})

\* node.calc_tensor_dim(loop_sizes, dim)
Call_calc_tensor_dim ==
    /\ node.status = "constructed"
    /\ call.op = "none"
    /\ \E dim \in ToSet(node.loop_dim_list) \cup ToSet(DictKeys(node.pr_loop)) \cup {dim_Z} :
       \E loop_sizes \in LoopSizesFor(dim) :
          call' = [op |-> "calc_tensor_dim", args |-> <<loop_sizes, dim>>,
                   out |-> calc_tensor_dim(node, loop_sizes, dim)]
    /\ UNCHANGED <<layer_attrs, node, kwargs, stage>>

Next == Construct \/ Call_calc_tensor_dim \/ Return

Spec == Init /\ [][Next]_vars

----------------------------------------------------------------------------
(* SpecCalc: calc_pr_dimension_size called on bounded arguments *)

InitCalc ==
    /\ layer_attrs = NoAttrs
    /\ node = NoNode
    /\ call = NoCall
    /\ kwargs = NoKwargs
    /\ stage = NoStage

Call_calc_pr_dimension_size ==
    /\ call.op = "none"
    /\ \E sa \in 0..MaxScale, sb \in 0..MaxScale, A \in 1..MaxSize, B \in 1..MaxSize :
          call' = [op |-> "calc_pr_dimension_size", args |-> <<sa, A, sb, B>>,
                   out |-> calc_pr_dimension_size(sa, A, sb, B)]
    /\ UNCHANGED <<layer_attrs, node, kwargs, stage>>

NextCalc == Call_calc_pr_dimension_size \/ Return

SpecCalc == InitCalc /\ [][NextCalc]_vars

----------------------------------------------------------------------------
(* Claims about calc_pr_dimension_size, checked under SpecCalc *)

IsCalcCall == call.op = "calc_pr_dimension_size"
Arg_sa == call.args[1]
Arg_A == call.args[2]
Arg_sb == call.args[3]
Arg_B == call.args[4]

\* the number of distinct values of sa*a + sb*b for a in [0,A), b in [0,B)
CountUnique(sa, A, sb, B) ==
    Cardinality({sa * a + sb * b : a \in 0..(A - 1), b \in 0..(B - 1)})

\* C1: for positive sa, A, sb, B the call returns the number of distinct
\* values of sa*a + sb*b over a in [0,A) and b in [0,B).
C1_CountsDistinctValues ==
    (IsCalcCall /\ Arg_sa >= 1 /\ Arg_sb >= 1) =>
        /\ call.out.exc = ""
        /\ call.out.ret = CountUnique(Arg_sa, Arg_A, Arg_sb, Arg_B)

\* C2: for positive sa, A, sb, B the call returns the same value as the call
\* with the two (scaling factor, size) pairs swapped.
C2_SymmetricUnderSwap ==
    (IsCalcCall /\ Arg_sa >= 1 /\ Arg_sb >= 1) =>
        call.out = calc_pr_dimension_size(Arg_sb, Arg_B, Arg_sa, Arg_A)

\* C3: with both scaling factors 1 the call returns A + B - 1.
C3_UnitScalingIsSlidingWindow ==
    (IsCalcCall /\ Arg_sa = 1 /\ Arg_sb = 1) =>
        /\ call.out.exc = ""
        /\ call.out.ret = Arg_A + Arg_B - 1

\* the example of C3: OX = 4, FX = 3 gives 6
C3_Witness ==
    /\ IsCalcCall
    /\ call.args = <<1, 4, 1, 3>>
    /\ call.out = Ok(6)

----------------------------------------------------------------------------
(* Claims about a constructed LayerNode, checked under Spec *)

Constructed == node.status = "constructed"
\* pr_loop_dim_size was not supplied in the layer attributes
Computed == layer_attrs.pr_loop_dim_size = <<>>
PRKeys == ToSet(DictKeys(node.pr_loop))
Generator(dim, i) == DictGet(node.pr_loop, dim)[i]

\* the scaling factor that the relation of dim gives generator gen
ScalingFactorOf(dim, gen) ==
    LET sf == DictGet(node.pr_scaling_factors, dim) IN
    sf[CHOOSE i \in 1..Len(sf) : upper(sf[i][1]) = gen][2]

\* pad_before + pad_after of dim, (0, 0) when the layer gives none
PaddingOf(dim) ==
    IF DictHas(layer_attrs.padding, dim)
    THEN DictGet(layer_attrs.padding, dim)[1] + DictGet(layer_attrs.padding, dim)[2]
    ELSE 0

\* calc_pr_dimension_size on the (scaling factor, size) pairs of the two
\* generators of dim, the sizes taken from sizes
OverlapSize(dim, sizes) ==
    calc_pr_dimension_size(
        ScalingFactorOf(dim, Generator(dim, 1)), DictGet(sizes, Generator(dim, 1)),
        ScalingFactorOf(dim, Generator(dim, 2)), DictGet(sizes, Generator(dim, 2)))

\* the layer of the example: IX = OX + FX with OX = 4, FX = 3
ExampleLayer(pad) ==
    /\ layer_attrs.equation = Eq_conv1d
    /\ layer_attrs.dimension_relations = <<Rel_ix_implicit>>
    /\ DictGet(layer_attrs.loop_dim_size, dim_OX) = 4
    /\ DictGet(layer_attrs.loop_dim_size, dim_FX) = 3
    /\ layer_attrs.padding = pad

\* C4: when pr_loop_dim_size is not supplied, the constructed node holds for
\* every partially-relevant dim the value of calc_pr_dimension_size on the
\* two generators' (scaling factor, full size) pairs, each factor with the
\* size of its own generator, minus pad_before + pad_after of the dim (0 when
\* no padding is given); for IX = OX + FX, OX = 4, FX = 3 it is 6 without
\* padding and 4 with padding (1, 1).
C4_TotalSizeMinusPadding ==
    (Constructed /\ Computed) =>
        /\ ToSet(DictKeys(node.pr_loop_dim_size)) = PRKeys
        /\ \A dim \in PRKeys :
              /\ OverlapSize(dim, layer_attrs.loop_dim_size).exc = ""
              /\ DictGet(node.pr_loop_dim_size, dim)
                 = OverlapSize(dim, layer_attrs.loop_dim_size).ret - PaddingOf(dim)
        /\ ExampleLayer(<<>>) => DictGet(node.pr_loop_dim_size, dim_IX) = 6
        /\ ExampleLayer(<< <<dim_IX, <<1, 1>> >> >>) =>
              DictGet(node.pr_loop_dim_size, dim_IX) = 4

\* the example layer with padding (1, 1), constructed with IX of size 4
C4_Witness ==
    /\ Constructed
    /\ Computed
    /\ ExampleLayer(<< <<dim_IX, <<1, 1>> >> >>)
    /\ node.pr_loop_dim_size = << <<dim_IX, 4>> >>

\* C5: no constructed node has a computed partially-relevant dimension of
\* size zero or less.
C5_NoNonPositivePrSize ==
    (Constructed /\ Computed) =>
        \A dim \in PRKeys : DictGet(node.pr_loop_dim_size, dim) > 0

IsTensorDimCall == call.op = "calc_tensor_dim"
Arg_loop_sizes == call.args[1]
Arg_dim == call.args[2]

\* the call is for a partially-relevant dim that is not a key of loop_sizes,
\* and loop_sizes gives a size to both generators of the dim
IsPrTensorDimCall ==
    /\ IsTensorDimCall
    /\ Arg_dim \in PRKeys
    /\ ~DictHas(Arg_loop_sizes, Arg_dim)
    /\ \A i \in 1..2 : DictHas(Arg_loop_sizes, Generator(Arg_dim, i))

\* C7: for a partially-relevant dim that is not a key of loop_sizes,
\* calc_tensor_dim returns the minimum of pr_loop_dim_size[dim] and
\* calc_pr_dimension_size on the sizes that loop_sizes gives the generators,
\* so the result never exceeds the padding-adjusted total of the dim.
C7_ClippedToTotal ==
    IsPrTensorDimCall =>
        /\ call.out.exc = ""
        /\ call.out.ret = Min(DictGet(node.pr_loop_dim_size, Arg_dim),
                              OverlapSize(Arg_dim, Arg_loop_sizes).ret)
        /\ call.out.ret <= DictGet(node.pr_loop_dim_size, Arg_dim)
        /\ Computed =>
              call.out.ret <= OverlapSize(Arg_dim, layer_attrs.loop_dim_size).ret
                              - PaddingOf(Arg_dim)

\* a call in which the clip acts: the generator sizes give more than the
\* padding-adjusted total, and the total is returned
C7_Witness ==
    /\ IsPrTensorDimCall
    /\ Computed
    /\ PaddingOf(Arg_dim) > 0
    /\ DictGet(node.pr_loop_dim_size, Arg_dim) > 0
    /\ OverlapSize(Arg_dim, Arg_loop_sizes).ret > DictGet(node.pr_loop_dim_size, Arg_dim)
    /\ call.out = Ok(DictGet(node.pr_loop_dim_size, Arg_dim))

\* the entry of the i-th operand, and what it holds
OperandEntry(i) == node.operand_loop_dim[i][2]
RelevantOf(i) == ToSet(OperandEntry(i).R)
IrrelevantOf(i) == OperandEntry(i).IR
GeneratorsOf(i) ==
    UNION {ToSet(OperandEntry(i).PR[j][2]) : j \in 1..Len(OperandEntry(i).PR)}
\* the dimensions of the i-th operand's term of the equation
TermOf(i) ==
    ToSet(DictGet(node.operand_dimensionality_order, node.operand_loop_dim[i][1]))
SizeOf(d) == DictGet(node.loop_dim_size, d)
DimsAbove1 == {d \in ToSet(DictKeys(node.loop_dim_size)) : SizeOf(d) > 1}

\* C8: for every operand the relevant dimensions, the irrelevant dimensions
\* and the generators of its partially-relevant entries are pairwise disjoint,
\* and their union is the set of the workload dimensions of size > 1.
C8_PartitionOfDimsAbove1 ==
    Constructed =>
        \A i \in 1..Len(node.operand_loop_dim) :
            /\ RelevantOf(i) \cap IrrelevantOf(i) = {}
            /\ RelevantOf(i) \cap GeneratorsOf(i) = {}
            /\ IrrelevantOf(i) \cap GeneratorsOf(i) = {}
            /\ RelevantOf(i) \cup IrrelevantOf(i) \cup GeneratorsOf(i) = DimsAbove1

\* C9: no workload dimension of size 1 is in the R or the IR list of any
\* operand.
C9_NoSize1InRorIR ==
    Constructed =>
        \A i \in 1..Len(node.operand_loop_dim) :
            \A d \in RelevantOf(i) \cup IrrelevantOf(i) :
                DictHas(node.loop_dim_size, d) => SizeOf(d) # 1

\* C10: the PR entry of an operand holds the partially-relevant keys that are
\* in the operand's own term of the equation, and no other; it is empty for an
\* operand whose term holds none.
C10_PrKeysOfOwnTerm ==
    Constructed =>
        \A i \in 1..Len(node.operand_loop_dim) :
            ToSet(DictKeys(OperandEntry(i).PR)) = PRKeys \cap TermOf(i)

\* the identifiers of a relation, as extract_pr_loop_info reads them
IdentifiersOf(relation) == findall(Letters, relation)

\* a '*' of the relation that has no digit before it and one of the two
\* generators right after it
StarWithoutCoefficient(relation) ==
    \E p \in 1..Len(relation) :
        /\ relation[p] = "*"
        /\ (p = 1 \/ relation[p - 1] \notin Digits)
        /\ \E k \in {2, 3} :
              /\ k <= Len(IdentifiersOf(relation))
              /\ occurs_at(relation, IdentifiersOf(relation)[k], p)

\* the relation is not one target and two distinct generators with a digit
\* before every '*'
Malformed(relation) ==
    \/ Len(IdentifiersOf(relation)) # 3
    \/ upper(IdentifiersOf(relation)[2]) = upper(IdentifiersOf(relation)[3])
    \/ StarWithoutCoefficient(relation)

\* C11: no LayerNode is constructed from a layer with a malformed dimension
\* relation (other than three identifiers, the same generator twice, or a
\* generator after '*' without a digit coefficient): construction aborts.
C11_MalformedRelationAborts ==
    Constructed =>
        \A i \in 1..Len(layer_attrs.dimension_relations) :
            ~Malformed(layer_attrs.dimension_relations[i])

\* the two terms of the right-hand side of a relation 'key=term+term', the
\* coefficient of a term ('<c>*name' or 'name') and its name
TermsOf(relation) ==
    findall(Letters \cup Digits \cup {"*"},
            SubSeq(relation, index(relation, <<"=">>) + 2, Len(relation)))
CoefficientOf(term) ==
    IF "*" \in ToSet(term) THEN int(SubSeq(term, 1, index(term, <<"*">>))) ELSE 1
NameOf(term) == findall(Letters, term)[1]
KeyOf(relation) == upper(IdentifiersOf(relation)[1])

\* key = c2*d2 + c3*d3 with positive integer coefficients
Linear(relation) ==
    /\ ~Malformed(relation)
    /\ Len(TermsOf(relation)) = 2
    /\ \A k \in 1..2 : CoefficientOf(TermsOf(relation)[k]) > 0

\* the node holds, for the relation, the two generators and their
\* coefficients, in the order of the relation
Recorded(relation) ==
    /\ DictHas(node.pr_loop, KeyOf(relation))
    /\ DictGet(node.pr_loop, KeyOf(relation))
         = [k \in 1..2 |-> upper(NameOf(TermsOf(relation)[k]))]
    /\ DictHas(node.pr_scaling_factors, KeyOf(relation))
    /\ DictGet(node.pr_scaling_factors, KeyOf(relation))
         = [k \in 1..2 |-> <<NameOf(TermsOf(relation)[k]),
                              CoefficientOf(TermsOf(relation)[k])>>]

\* a generator of the relation is part of the name of the key or of the
\* other generator
SubstringGenerator(relation) ==
    \E k \in {2, 3} : \E j \in {1, 2, 3} \ {k} :
        \E p \in 0..Len(IdentifiersOf(relation)[j]) :
            occurs_at(IdentifiersOf(relation)[j], IdentifiersOf(relation)[k], p)

\* C27: for every relation key = c2*d2 + c3*d3 with positive integer
\* coefficients (a missing coefficient is 1) the constructed node holds
\* pr_loop[KEY] = [D2, D3] and the scaling factors c2 for d2 and c3 for d3, in
\* that order, whatever the names of the dimensions.
C27_GeneratorsAndFactorsRecorded ==
    Constructed =>
        \A i \in 1..Len(layer_attrs.dimension_relations) :
            Linear(layer_attrs.dimension_relations[i])
                => Recorded(layer_attrs.dimension_relations[i])

\* the same for the relations in which no generator is part of another name
C27_RecordedWhenNoSubstring ==
    Constructed =>
        \A i \in 1..Len(layer_attrs.dimension_relations) :
            (Linear(layer_attrs.dimension_relations[i])
             /\ ~SubstringGenerator(layer_attrs.dimension_relations[i]))
                => Recorded(layer_attrs.dimension_relations[i])

\* the equation with every '+=' written as '=' and every '++' as '+'
RECURSIVE plain_form(_)
plain_form(equation) ==
    IF Len(equation) < 2 THEN equation
    ELSE IF equation[1] = "+" /\ equation[2] \in {"=", "+"}
    THEN <<equation[2]>> \o plain_form(SubSeq(equation, 3, Len(equation)))
    ELSE <<equation[1]>> \o plain_form(Tail(equation))

\* the layer is written in the accumulate or in the concat form
Accumulates == plain_form(layer_attrs.equation) # layer_attrs.equation

\* the outcome of constructing the same layer from the plain form
PlainNode == LayerNode_init([layer_attrs EXCEPT !.equation = plain_form(@)])

\* C26: a layer whose equation is written with '+=' or '++' is constructed
\* exactly when the same layer written with '=' or '+' is, with the same
\* operand list and the same R/IR/PR entry per operand; the first operand is
\* the output operand and the others are the input operands, in the order of
\* the equation.
C26_AccumulateAndConcatLikePlain ==
    (node.status # "none" /\ Accumulates /\ ~layer_attrs.has_equation_relations) =>
        /\ Constructed <=> PlainNode.exc = ""
        /\ Constructed =>
              /\ node.operand_list = PlainNode.ret.operand_list
              /\ node.operand_loop_dim = PlainNode.ret.operand_loop_dim
              /\ node.output_operand = node.operand_list[1]
              /\ node.input_operands = Tail(node.operand_list)

\* the same for the equations in which every operand after a '++' carries an
\* index
C26_LikePlainWhenIndexed ==
    (node.status # "none" /\ Accumulates /\ ~layer_attrs.has_equation_relations
     /\ layer_attrs.equation # Eq_concat3) =>
        /\ Constructed <=> PlainNode.exc = ""
        /\ Constructed =>
              /\ node.operand_list = PlainNode.ret.operand_list
              /\ node.operand_loop_dim = PlainNode.ret.operand_loop_dim
              /\ node.output_operand = node.operand_list[1]
              /\ node.input_operands = Tail(node.operand_list)

----------------------------------------------------------------------------
(* WorkloadStage (src/zigzag/classes/stages/WorkloadStage.py)               *)
(*                                                                         *)
(* run() is a generator: it advances when its consumer asks for the next   *)
(* item. One action is one stretch of run() between two points where it    *)
(* can be suspended or where it waits for the sub-stage's generator.       *)
(* An object whose attributes may be missing is the dict of its attributes.*)

\* bounds: the workload graph has MaxNodes nodes, and the run() of a
\* sub-stage yields at most MaxResults results
MaxNodes == 2
MaxResults == 2

None == "None"

\* getattr(obj, name, default)
getattr(obj, name, default) ==
    IF DictHas(obj, name) THEN DictGet(obj, name) ELSE default

\* Accelerator.get_core(core_id): the core with that id, an error when the
\* accelerator has none
get_core(accelerator, core_id) ==
    IF \E i \in 1..Len(accelerator.cores) : accelerator.cores[i].id = core_id
    THEN Ok(accelerator.cores[CHOOSE i \in 1..Len(accelerator.cores) :
                                  accelerator.cores[i].id = core_id])
    ELSE Raise("ValueError")

\* line 27 with the check lost: no node is taken for a DummyNode
isinstance_DummyNode_never(layer) == FALSE

\* line 27: isinstance(layer, DummyNode)
isinstance_DummyNode(layer) == layer.class = "DummyNode"

\* lines 37-41: layer.layer_attrs["operator_type"], None on a KeyError
layer_type_of(layer) ==
    IF DictHas(layer.layer_attrs, "operator_type")
    THEN DictGet(layer.layer_attrs, "operator_type")
    ELSE None

\* line 42 with 'Add' forgotten in the list of layer types
skipped_on_pooling_only(pe_type, layer_type) ==
    pe_type \in {"in_sram_computing"} /\ layer_type \in {"Pooling"}

\* line 42: (pe_type in ["in_sram_computing"]) and (layer_type in ["Pooling", "Add"])
skipped_on(pe_type, layer_type) ==
    pe_type \in {"in_sram_computing"} /\ layer_type \in {"Pooling", "Add"}

\* an order that does not look at the edges of the graph
ready_ignoring_edges(workload, sorted) ==
    {n \in 1..Len(workload.nodes) : n \notin ToSet(sorted)}

\* line 25, nx.topological_sort(self.workload): the nodes it can yield after
\* those of sorted, i.e. the nodes not yet yielded whose predecessors all are.
\* The order among such nodes is the library's choice and is left open.
ready(workload, sorted) ==
    {n \in 1..Len(workload.nodes) :
        /\ n \notin ToSet(sorted)
        /\ \A e \in workload.edges : e[2] = n => e[1] \in ToSet(sorted)}

\* lines 45-47 on a kwargs that is shared by the layers and keeps the layer
\* it was first given
sub_stage_kwargs_first_layer(self, layer) ==
    [layer |-> IF self.sub_stages = <<>> THEN layer ELSE self.sub_stages[1].layer,
     accelerator |-> self.accelerator]

\* lines 45-47: kwargs = self.kwargs.copy() with layer and accelerator set
sub_stage_kwargs(self, layer) ==
    [layer |-> layer, accelerator |-> self.accelerator]

\* the n results that the run() of the sub-stage made with kwargs yields:
\* (cme, extra_info) pairs, told apart by their number
sub_stage_run(sub_kwargs, n) ==
    [k \in 1..n |-> <<[layer |-> sub_kwargs.layer.id,
                       accelerator |-> sub_kwargs.accelerator.name,
                       nr |-> k], k>>]

\* line 55: yield cme, (layer, extra_info)
yield_tagged(result, layer) == <<result[1], <<layer, result[2]>> >>

\* lines 16-22: WorkloadStage(list_of_callables, workload=, accelerator=)
WorkloadStage_init(kw) ==
    [class |-> "WorkloadStage",
     workload |-> kw.workload,
     accelerator |-> kw.accelerator,
     pc |-> "loop",
     sorted |-> <<>>,
     sub_stages |-> <<>>,
     layer |-> None,
     results |-> <<>>,
     yielded |-> None,
     exc |-> ""]

\* line 28 and line 43: continue
continue(self, n) == [self EXCEPT !.sorted = Append(@, n)]

\* lines 45-54: the sub-stage of layer is constructed and its run() is called
sub_stage_made(self, n, layer, results) ==
    [self EXCEPT !.sorted = Append(@, n),
                 !.sub_stages = Append(@, sub_stage_kwargs(self, layer)),
                 !.layer = layer,
                 !.results = results,
                 !.pc = "drain"]

\* lines 32-54: the body of the loop for a layer that is not a DummyNode;
\* core is the outcome of get_core
layer_visited(self, n, layer, core, results) ==
    IF core.exc # "" THEN [self EXCEPT !.pc = "error", !.exc = core.exc]
    ELSE IF skipped_on(getattr(core.ret.operational_array, "pe_type", None),
                       layer_type_of(layer))
    THEN continue(self, n)
    ELSE sub_stage_made(self, n, layer, results)

\* lines 26-54: the body of the loop for the node n
visited(self, n, layer, n_results) ==
    IF isinstance_DummyNode(layer) THEN continue(self, n)
    ELSE layer_visited(self, n, layer,
                       get_core(self.accelerator, layer.core_allocation),
                       sub_stage_run(sub_stage_kwargs(self, layer), n_results))

\* the nodes of a workload: DummyNodes, and layers on a core with an operator
\* type, or without one (as when the workload was read from onnx)
DummyNodeOf(id) == [class |-> "DummyNode", id |-> id, core_allocation |-> -1]
LayerNodesOf(id) ==
    {[class |-> "LayerNode", id |-> id, core_allocation |-> core,
      layer_attrs |-> attrs] :
        core \in {0, 1},
        attrs \in {<<>>} \cup {<< <<"operator_type", t>> >> : t \in {"Pooling", "Add", "Conv"}}}
NodesOf(id) == {DummyNodeOf(id)} \cup LayerNodesOf(id)

\* the lists of MaxNodes nodes, the node at position i having id i
RECURSIVE NodeLists(_)
NodeLists(n) ==
    IF n = 0 THEN {<<>>}
    ELSE {Append(l, x) : l \in NodeLists(n - 1), x \in NodesOf(n)}

\* acyclic graphs: the edges lead from a node to a node added after it
Workloads ==
    {[nodes |-> nodes, edges |-> edges] :
        nodes \in NodeLists(MaxNodes),
        edges \in SUBSET {<<i, j>> \in (1..MaxNodes) \X (1..MaxNodes) : i < j}}

\* an accelerator with an in-SRAM-computing core and a core whose operational
\* array has no pe_type, or another pe_type
Accelerators ==
    {[name |-> "accelerator",
      cores |-> <<[id |-> 0, operational_array |-> << <<"pe_type", "in_sram_computing">> >>],
                  [id |-> 1, operational_array |-> oa]>>] :
        oa \in {<<>>, << <<"pe_type", "digital">> >>}}

WorkloadKwargs ==
    {[class |-> "WorkloadStage", workload |-> w, accelerator |-> a] :
        w \in Workloads, a \in Accelerators}

InitWorkload ==
    /\ layer_attrs = NoAttrs
    /\ node = NoNode
    /\ call = NoCall
    /\ kwargs \in WorkloadKwargs
    /\ stage = NoStage

\* WorkloadStage(list_of_callables, workload=..., accelerator=...).run()
WorkloadStage_construct ==
    /\ stage.class = "none"
    /\ stage' = WorkloadStage_init(kwargs)
    /\ UNCHANGED <<layer_attrs, node, call, kwargs>>

\* lines 25-54: the loop takes the next node of the topological order
WorkloadStage_next ==
    /\ stage.class = "WorkloadStage"
    /\ stage.pc = "loop"
    /\ \E n \in ready(stage.workload, stage.sorted), n_results \in 0..MaxResults :
          stage' = visited(stage, n, stage.workload.nodes[n], n_results)
    /\ UNCHANGED <<layer_attrs, node, call, kwargs>>

\* lines 54-55: the run() of the sub-stage yields a result, which is yielded
WorkloadStage_yield ==
    /\ stage.class = "WorkloadStage"
    /\ stage.pc = "drain"
    /\ stage.results # <<>>
    /\ stage' = [stage EXCEPT !.yielded = yield_tagged(Head(stage.results), stage.layer),
                              !.results = Tail(@)]
    /\ UNCHANGED <<layer_attrs, node, call, kwargs>>

\* line 54: the run() of the sub-stage is exhausted
WorkloadStage_exhausted ==
    /\ stage.class = "WorkloadStage"
    /\ stage.pc = "drain"
    /\ stage.results = <<>>
    /\ stage' = [stage EXCEPT !.pc = "loop"]
    /\ UNCHANGED <<layer_attrs, node, call, kwargs>>

\* line 25: the topological order is exhausted, run() returns
WorkloadStage_return ==
    /\ stage.class = "WorkloadStage"
    /\ stage.pc = "loop"
    /\ Len(stage.sorted) = Len(stage.workload.nodes)
    /\ stage' = [stage EXCEPT !.pc = "done"]
    /\ UNCHANGED <<layer_attrs, node, call, kwargs>>

NextWorkload ==
    \/ WorkloadStage_construct
    \/ WorkloadStage_next
    \/ WorkloadStage_yield
    \/ WorkloadStage_exhausted
    \/ WorkloadStage_return

SpecWorkload == InitWorkload /\ [][NextWorkload]_vars

----------------------------------------------------------------------------
(* Claims about WorkloadStage.run, checked under SpecWorkload *)

IsWorkloadStage == stage.class = "WorkloadStage"
NodeAt(n) == stage.workload.nodes[n]
\* the ids of the layers a sub-stage was constructed for, in that order
SubStageIds == [i \in 1..Len(stage.sub_stages) |-> stage.sub_stages[i].layer.id]
\* the position of x in a list that holds it
PositionIn(l, x) == CHOOSE i \in 1..Len(l) : l[i] = x

IsPlaceholder(n) == NodeAt(n).class = "DummyNode"
\* the core of the accelerator that the layer n is allocated to
CoreOf(n) ==
    kwargs.accelerator.cores[CHOOSE i \in 1..Len(kwargs.accelerator.cores) :
        kwargs.accelerator.cores[i].id = NodeAt(n).core_allocation]
HasPeType(n, t) ==
    \E i \in 1..Len(CoreOf(n).operational_array) :
        CoreOf(n).operational_array[i] = <<"pe_type", t>>
HasOperatorType(n, t) ==
    \E i \in 1..Len(NodeAt(n).layer_attrs) :
        NodeAt(n).layer_attrs[i] = <<"operator_type", t>>
HasNoOperatorType(n) ==
    \A i \in 1..Len(NodeAt(n).layer_attrs) :
        NodeAt(n).layer_attrs[i][1] # "operator_type"
\* the layer n is for free on its core
FreeOnCore(n) ==
    /\ HasPeType(n, "in_sram_computing")
    /\ HasOperatorType(n, "Pooling") \/ HasOperatorType(n, "Add")
\* the layers that are not placeholders and are not skipped
Surviving(n) == ~IsPlaceholder(n) /\ ~FreeOnCore(n)

\* C12: no sub-stage is constructed or run for a DummyNode, no result is
\* yielded with a DummyNode in its tag, and a DummyNode in the graph does not
\* make run() fail: it is skipped.
C12_NoSubStageForPlaceholder ==
    IsWorkloadStage =>
        /\ \A i \in 1..Len(stage.sub_stages) :
              stage.sub_stages[i].layer.class # "DummyNode"
        /\ stage.pc = "drain" => stage.layer.class # "DummyNode"
        /\ stage.yielded # None => stage.yielded[2][1].class # "DummyNode"
        /\ stage.pc # "error"

\* run() has returned for a graph with a DummyNode followed by a layer whose
\* sub-stage yielded a result
C12_Witness ==
    /\ IsWorkloadStage
    /\ stage.pc = "done"
    /\ IsPlaceholder(1)
    /\ <<1, 2>> \in stage.workload.edges
    /\ SubStageIds = <<2>>
    /\ stage.yielded # None

\* C13: a node is visited after all its predecessors, and the sub-stage of a
\* layer is constructed after those of all its predecessors that have one.
C13_PredecessorsFirst ==
    IsWorkloadStage =>
        \A e \in stage.workload.edges :
            /\ e[2] \in ToSet(stage.sorted) =>
                  /\ e[1] \in ToSet(stage.sorted)
                  /\ PositionIn(stage.sorted, e[1]) < PositionIn(stage.sorted, e[2])
            /\ (e[2] \in ToSet(SubStageIds) /\ Surviving(e[1])) =>
                  /\ e[1] \in ToSet(SubStageIds)
                  /\ PositionIn(SubStageIds, e[1]) < PositionIn(SubStageIds, e[2])

\* both layers of the graph 1 -> 2 survive and have their sub-stage
C13_Witness ==
    /\ IsWorkloadStage
    /\ stage.pc = "done"
    /\ stage.workload.edges = {<<1, 2>>}
    /\ SubStageIds = <<1, 2>>

\* one step of run(), as C14 has it
C14_Step ==
    IsWorkloadStage =>
        \* a node that survives gets its sub-stage when it is visited, once,
        \* with the layer and the accelerator, and no other node gets one
        /\ stage'.sorted # stage.sorted =>
              LET n == stage'.sorted[Len(stage'.sorted)] IN
              IF Surviving(n)
              THEN /\ n \notin ToSet(SubStageIds)
                   /\ stage'.sub_stages =
                          Append(stage.sub_stages,
                                 [layer |-> NodeAt(n), accelerator |-> kwargs.accelerator])
                   /\ stage'.layer = NodeAt(n)
                   /\ \E k \in 0..MaxResults :
                          stage'.results = sub_stage_run(stage'.sub_stages[Len(stage'.sub_stages)], k)
              ELSE stage'.sub_stages = stage.sub_stages
        \* a sub-stage is constructed only when a node is visited, and then the
        \* results of the sub-stage before it are exhausted
        /\ stage'.sub_stages # stage.sub_stages =>
              /\ stage'.sorted # stage.sorted
              /\ stage.results = <<>>
        \* the results are taken from the sub-stage one at a time, in its
        \* order, and each is yielded with the layer of the sub-stage
        /\ (stage'.results # stage.results /\ stage'.sorted = stage.sorted) =>
              /\ stage.results # <<>>
              /\ stage'.results = Tail(stage.results)
              /\ stage'.yielded = <<Head(stage.results)[1],
                                    <<stage.layer, Head(stage.results)[2]>> >>
        /\ stage'.yielded # stage.yielded => stage'.results = Tail(stage.results)
        \* run() returns when every node was visited and nothing is left
        /\ stage'.pc = "done" =>
              /\ stage.results = <<>>
              /\ ToSet(stage.sorted) = 1..Len(stage.workload.nodes)

\* C14: run() constructs exactly one sub-stage per layer that is not skipped,
\* with that layer and the accelerator; it yields every result of the
\* sub-stage as (result, (layer, extra_info)) in the sub-stage's order, and
\* constructs the next sub-stage only when the results of the current one are
\* exhausted.
C14_OneSubStagePerLayerDrained == [][C14_Step]_vars

\* two layers had their sub-stage, and the last result of the second, the
\* MaxResults-th, was yielded with its layer
C14_Witness ==
    /\ IsWorkloadStage
    /\ stage.pc = "done"
    /\ Len(stage.sub_stages) = 2
    /\ stage.yielded # None
    /\ stage.yielded[1].nr = MaxResults
    /\ stage.yielded[2] = <<stage.sub_stages[2].layer, MaxResults>>

\* C15: a visited layer has no sub-stage iff its core's operational array has
\* pe_type 'in_sram_computing' and its operator_type is 'Pooling' or 'Add';
\* a layer without the key operator_type always has one.
C15_SkippedIffFreeOnCore ==
    (IsWorkloadStage /\ stage.pc # "error") =>
        \A n \in ToSet(stage.sorted) :
            ~IsPlaceholder(n) =>
                /\ n \notin ToSet(SubStageIds) <=> FreeOnCore(n)
                /\ HasNoOperatorType(n) => n \in ToSet(SubStageIds)

\* an 'Add' layer on the in-SRAM-computing core was skipped, and a layer
\* without operator_type on the same core was not
C15_Witness ==
    /\ IsWorkloadStage
    /\ stage.pc = "done"
    /\ ~IsPlaceholder(1) /\ ~IsPlaceholder(2)
    /\ HasPeType(1, "in_sram_computing") /\ HasOperatorType(1, "Add")
    /\ HasPeType(2, "in_sram_computing") /\ HasNoOperatorType(2)
    /\ SubStageIds = <<2>>

----------------------------------------------------------------------------
(* SpatialMappingGeneratorStage                                             *)
(* (src/zigzag/classes/stages/SpatialMappingGeneratorStage.py)              *)
(*                                                                         *)
(* A spatial mapping is a dict from the name of a dimension of the         *)
(* operational array to a dict from layer dimension to unroll factor.      *)
(* A layer that is None is the record NoLayer, and an attribute that may   *)
(* be None is a list of at most one value.                                 *)

\* bounds: the generator yields at most MaxCandidates mappings, with unroll
\* factors up to MaxUnroll
MaxCandidates == 2
MaxUnroll == 2

NoLayer == [class |-> "NoneType"]
IsNone(x) == x = <<>>
Some(v) == <<v>>

\* lines 54-67: check_layer without the check of the core allocation
check_layer_only_None(layer) ==
    IF layer.class = "NoneType" THEN Raise("ValueError") ELSE Ok(TRUE)

\* lines 54-67
check_layer(layer) ==
    IF layer.class = "NoneType" THEN Raise("ValueError")
    ELSE IF IsNone(layer.core_allocation) THEN Raise("ValueError")
    ELSE Ok(TRUE)

\* MemoryHierarchy.get_inner_memories(): the innermost levels, as their
\* positions in mem_level_list
get_inner_memories(memory_hierarchy) == memory_hierarchy.inner

\* lines 153-157: the loop over the innermost levels; found is the position
\* of the last level seen that holds mem_op, 0 when there is none yet
RECURSIVE act_innermost_mem_level_from(_, _, _, _)
act_innermost_mem_level_from(memory_hierarchy, mem_op, i, found) ==
    IF i > Len(get_inner_memories(memory_hierarchy)) THEN found
    ELSE act_innermost_mem_level_from(memory_hierarchy, mem_op, i + 1,
             IF mem_op \in ToSet(memory_hierarchy.mem_level_list[
                                     get_inner_memories(memory_hierarchy)[i]].operands)
             THEN get_inner_memories(memory_hierarchy)[i]
             ELSE found)

\* lines 165-172: the product of the unroll factors, on the served dimension,
\* of the layer dimensions that are irrelevant to the constant operand
RECURSIVE mem_scaling_factor_from(_, _, _)
mem_scaling_factor_from(items, weight_ir_layer_dims, i) ==
    IF i > Len(items) THEN 1
    ELSE (IF items[i][1] \in ToSet(weight_ir_layer_dims) THEN items[i][2] ELSE 1)
         * mem_scaling_factor_from(items, weight_ir_layer_dims, i + 1)

mem_scaling_factor(user_spatial_mapping, act_served_oa_dim_name, weight_ir_layer_dims) ==
    IF ~DictHas(user_spatial_mapping, act_served_oa_dim_name) THEN 1
    ELSE mem_scaling_factor_from(DictGet(user_spatial_mapping, act_served_oa_dim_name),
                                 weight_ir_layer_dims, 1)

\* line 138 with the copy lost: memory_hierarchy is the hierarchy of the core
deepcopy_same_object(obj) == [is_copy |-> FALSE, value |-> obj]

\* line 138: copy.deepcopy(obj) is an object of its own, with the value of
\* obj; objects that obj holds twice are held twice by the copy
deepcopy(obj) == [is_copy |-> TRUE, value |-> obj]

\* line 188 as seen from the level at position curr_mem_level: the size of
\* its memory instance was multiplied when the loop of line 185 has reached
\* the level of the activations and that level holds the same instance
\* object (memory_instance.id is the identity of the object)
scaled_at(memory_hierarchy, act_innermost_mem_level, curr_mem_level) ==
    /\ curr_mem_level >= act_innermost_mem_level
    /\ memory_hierarchy.mem_level_list[curr_mem_level].memory_instance.id
           = memory_hierarchy.mem_level_list[act_innermost_mem_level].memory_instance.id

\* lines 185-204: the level at position curr_mem_level of the new hierarchy;
\* its memory instance is a copy, an object of its own
new_memory_level(memory_level, curr_mem_level, scaled, mem_scaling_factor_) ==
    [memory_instance |->
         [memory_level.memory_instance EXCEPT
              !.id = curr_mem_level,
              !.size = IF scaled THEN @ * mem_scaling_factor_ ELSE @],
     operands |-> memory_level.operands,
     port_alloc_raw |-> memory_level.port_alloc_raw,
     served_dimensions |-> memory_level.served_dimensions_vec[1],
     served_dimensions_vec |-> memory_level.served_dimensions_vec]

\* lines 181-204
new_memory_hierarchy(memory_hierarchy, act_innermost_mem_level, mem_scaling_factor_) ==
    [name |-> memory_hierarchy.name \o <<"-supporting-diagonal-map">>,
     mem_level_list |->
         [l \in 1..Len(memory_hierarchy.mem_level_list) |->
             new_memory_level(memory_hierarchy.mem_level_list[l], l,
                              scaled_at(memory_hierarchy, act_innermost_mem_level, l),
                              mem_scaling_factor_)],
     inner |-> memory_hierarchy.inner]

\* line 188: the hierarchy that memory_hierarchy names, when the loop of line
\* 185 is over: the instance object of the level of the activations has its
\* size multiplied, once, in every level that holds it
written_memory_hierarchy(memory_hierarchy, act_innermost_mem_level, mem_scaling_factor_) ==
    [memory_hierarchy EXCEPT !.mem_level_list =
         [l \in 1..Len(memory_hierarchy.mem_level_list) |->
             [memory_hierarchy.mem_level_list[l] EXCEPT !.memory_instance.size =
                  IF memory_hierarchy.mem_level_list[l].memory_instance.id
                         = memory_hierarchy.mem_level_list[act_innermost_mem_level]
                               .memory_instance.id
                  THEN @ * mem_scaling_factor_ ELSE @]]]

\* self.accelerator after line 188: the write goes to the copy of line 138;
\* it would go to the hierarchy of the core were memory_hierarchy that object
accelerator_after(self, core, memory_hierarchy, act_innermost_mem_level, mem_scaling_factor_) ==
    IF memory_hierarchy.is_copy THEN self.accelerator
    ELSE [self.accelerator EXCEPT !.cores =
              [c \in 1..Len(self.accelerator.cores) |->
                  IF self.accelerator.cores[c].id = core.id
                  THEN [self.accelerator.cores[c] EXCEPT !.memory_hierarchy =
                            written_memory_hierarchy(memory_hierarchy.value,
                                act_innermost_mem_level, mem_scaling_factor_)]
                  ELSE self.accelerator.cores[c]]]

\* lines 205-225 with the other cores of the accelerator kept
new_accelerator_with_other_cores(self, core, memory_hierarchy_) ==
    [name |-> self.accelerator.name \o <<"-supporting-diagonal-map">>,
     cores |-> [c \in 1..Len(self.accelerator.cores) |->
                   IF self.accelerator.cores[c].id = core.id
                   THEN [self.accelerator.cores[c] EXCEPT
                             !.memory_hierarchy = memory_hierarchy_]
                   ELSE self.accelerator.cores[c]]]

\* lines 205-225: the new core, alone in the new accelerator
new_accelerator(self, core, memory_hierarchy_) ==
    [name |-> self.accelerator.name \o <<"-supporting-diagonal-map">>,
     cores |-> <<[id |-> core.id,
                  operational_array |-> core.operational_array,
                  memory_hierarchy |-> memory_hierarchy_,
                  dataflows |-> core.dataflows]>>]

\* lines 164-226: act is served by one dimension of the array. The outcome
\* holds the pair returned and, third, self.accelerator as the call leaves it
scaled_by(self, core, act_innermost_mem_level, mem_scaling_factor_) ==
    IF mem_scaling_factor_ = 1 THEN Ok(<<FALSE, self.accelerator, self.accelerator>>)
    ELSE IF \E l \in 1..Len(core.memory_hierarchy.mem_level_list) :
                Len(core.memory_hierarchy.mem_level_list[l].served_dimensions_vec) < 1
    THEN Raise("AssertionError")
    ELSE Ok(<<TRUE,
              new_accelerator(self, core,
                  new_memory_hierarchy(deepcopy(core.memory_hierarchy).value,
                                       act_innermost_mem_level, mem_scaling_factor_)),
              accelerator_after(self, core, deepcopy(core.memory_hierarchy),
                                act_innermost_mem_level, mem_scaling_factor_)>>)

\* lines 158-226: act_innermost_mem_level is 0 when the loop of lines 153-157
\* assigned no level
served_by(self, core, user_spatial_mapping, weight_ir_layer_dims, act_innermost_mem_level) ==
    IF act_innermost_mem_level = 0 THEN Ok(<<FALSE, self.accelerator, self.accelerator>>)
    ELSE IF Cardinality(core.memory_hierarchy.mem_level_list[act_innermost_mem_level]
                            .served_dimensions) # 1
    THEN Ok(<<FALSE, self.accelerator, self.accelerator>>)
    ELSE scaled_by(self, core, act_innermost_mem_level,
             mem_scaling_factor(user_spatial_mapping,
                 CHOOSE d \in core.memory_hierarchy.mem_level_list[act_innermost_mem_level]
                                  .served_dimensions : TRUE,
                 weight_ir_layer_dims))

\* lines 151-226, for the constant operand and the list of the other input
\* operands
modified_for(self, core, user_spatial_mapping, const_operand, act_operands) ==
    IF act_operands = <<>> THEN Raise("IndexError")
    ELSE IF ~DictHas(self.layer.operand_loop_dim, const_operand) THEN Raise("KeyError")
    ELSE IF /\ get_inner_memories(core.memory_hierarchy) # <<>>
            /\ ~DictHas(self.layer.memory_operand_links, act_operands[1])
    THEN Raise("KeyError")
    ELSE served_by(self, core, user_spatial_mapping,
             DictGet(self.layer.operand_loop_dim, const_operand).IR,
             IF get_inner_memories(core.memory_hierarchy) = <<>> THEN 0
             ELSE act_innermost_mem_level_from(core.memory_hierarchy,
                      DictGet(self.layer.memory_operand_links, act_operands[1]), 1, 0))

\* [operand for operand in l if operand != x]
RECURSIVE others(_, _)
others(l, x) ==
    IF l = <<>> THEN <<>>
    ELSE (IF Head(l) # x THEN <<Head(l)>> ELSE <<>>) \o others(Tail(l), x)

\* lines 144-226, on the core of the layer
modified_on(self, core, user_spatial_mapping) ==
    IF Len(self.layer.constant_operands) > 1
    THEN Ok(<<FALSE, self.accelerator, self.accelerator>>)
    ELSE IF Len(self.layer.constant_operands) = 0 THEN Raise("IndexError")
    ELSE modified_for(self, core, user_spatial_mapping,
                      self.layer.constant_operands[1],
                      others(self.layer.input_operands, self.layer.constant_operands[1]))

\* lines 131-226: the outcome is (input_mem_size_updated, accelerator) and,
\* third, self.accelerator as the call leaves it
modify_innermost_input_mem_size_of(self, core, user_spatial_mapping) ==
    IF core.exc # "" THEN core
    ELSE modified_on(self, core.ret, user_spatial_mapping)

modify_innermost_input_mem_size(self, core_id, user_spatial_mapping) ==
    modify_innermost_input_mem_size_of(self, get_core(self.accelerator, core_id),
                                       user_spatial_mapping)

\* the n results that the run() of the conversion stage made with kwargs
\* yields: (cme, extra_info) pairs; a cme holds the accelerator and the
\* mapping it was evaluated for
conversion_stage_run(conversion_kwargs, n) ==
    [k \in 1..n |-> <<[accelerator |-> conversion_kwargs.accelerator,
                       mapping |-> conversion_kwargs.layer.user_spatial_mapping,
                       nr |-> k], k>>]

\* a stage before run() is called; input_mem_size_updated and
\* original_accelerator are locals of run() that are read only after they
\* were assigned; generator_runs counts the UserSpatialMappingGenerators made
\* and run, generated is what the last one yields and generator_pulled how
\* many of these mappings were taken from it so far
stage_attributes(kw) ==
    [class |-> "SpatialMappingGeneratorStage",
     accelerator |-> kw.accelerator,
     layer |-> kw.layer,
     enable_weight_diagonal_mapping |-> kw.enable_weight_diagonal_mapping,
     pc |-> "constructed",
     exc |-> "",
     generator_runs |-> 0,
     generated |-> <<>>,
     generator_pulled |-> 0,
     user_spatial_mappings |-> <<>>,
     i |-> 0,
     user_spatial_mapping |-> <<>>,
     input_mem_size_updated |-> FALSE,
     original_accelerator |-> kw.accelerator,
     conversion_stages |-> <<>>,
     results |-> <<>>,
     yielded |-> <<>>]

\* an exception leaves run(), or the constructor
raised(self, exc) == [self EXCEPT !.pc = "error", !.exc = exc]

\* lines 32-52: checked is the outcome of check_layer
SpatialMappingGeneratorStage_checked(kw, checked) ==
    IF checked.exc # "" THEN raised(stage_attributes(kw), checked.exc)
    ELSE stage_attributes(kw)

SpatialMappingGeneratorStage_init(kw) ==
    SpatialMappingGeneratorStage_checked(kw, check_layer(kw.layer))

\* line 80 taken for false whatever the user gave
all_in_never(oa_dims, user_provided_spatial_mappings) == FALSE

\* line 80: all(map(lambda x: x in user_provided_spatial_mappings, oa_dims))
all_in(oa_dims, user_provided_spatial_mappings) ==
    \A i \in 1..Len(oa_dims) : DictHas(user_provided_spatial_mappings, oa_dims[i])

\* line 91: the list comprehension takes every mapping from the generator
pulled(generated) == Len(generated)

\* lines 80-93: generated is what the run() of the UserSpatialMappingGenerator
\* yields when it is asked
run_started_on(self, core, generated) ==
    IF all_in(core.operational_array.dimensions, self.layer.user_spatial_mapping)
    THEN [self EXCEPT !.user_spatial_mappings = <<self.layer.user_spatial_mapping>>,
                      !.pc = "loop"]
    ELSE [self EXCEPT !.generator_runs = @ + 1,
                      !.generated = generated,
                      !.generator_pulled = pulled(generated),
                      !.user_spatial_mappings = generated,
                      !.pc = "loop"]

\* lines 74-93
run_started(self, core, generated) ==
    IF core.exc # "" THEN raised(self, core.exc)
    ELSE run_started_on(self, core.ret, generated)

\* lines 115 and 122 with the copy lost: the conversion stage holds self.layer
copy_same_object(obj) == [is_copy |-> FALSE, value |-> obj]

\* lines 115 and 122: copy.copy(obj) is an object of its own whose attributes
\* are those of obj at the time of the copy
copy(obj) == [is_copy |-> TRUE, value |-> obj]

\* lines 110-124: the kwargs of the conversion stage; layer_is_copy tells
\* whether its layer is an object other than self.layer
conversion_kwargs(self, updated, new_accelerator_) ==
    [accelerator |-> IF self.enable_weight_diagonal_mapping /\ updated
                     THEN new_accelerator_ ELSE self.accelerator,
     layer |-> copy(self.layer).value,
     layer_is_copy |-> copy(self.layer).is_copy]

\* line 100 as seen from the conversion stages made so far: the assignment
\* reaches the layer of a conversion stage only if that layer is self.layer
layer_assigned(conversion_stages, user_spatial_mapping) ==
    [j \in 1..Len(conversion_stages) |->
        IF conversion_stages[j].layer_is_copy THEN conversion_stages[j]
        ELSE [conversion_stages[j] EXCEPT
                  !.layer.user_spatial_mapping = user_spatial_mapping]]

\* lines 110-125: the conversion stage is constructed and its run() is called
conversion_stage_made(self, updated, new_accelerator_, n_results) ==
    [self EXCEPT !.input_mem_size_updated = updated,
                 !.original_accelerator =
                     IF self.enable_weight_diagonal_mapping /\ updated
                     THEN self.accelerator ELSE @,
                 !.conversion_stages =
                     Append(@, conversion_kwargs(self, updated, new_accelerator_)),
                 !.results =
                     conversion_stage_run(conversion_kwargs(self, updated, new_accelerator_),
                                          n_results),
                 !.pc = "drain"]

\* lines 105-125: modified is the outcome of modify_innermost_input_mem_size
candidate_modified(self, modified, n_results) ==
    IF modified.exc # "" THEN raised(self, modified.exc)
    ELSE conversion_stage_made([self EXCEPT !.accelerator = modified.ret[3]],
                               modified.ret[1], modified.ret[2], n_results)

\* lines 104-125, self.layer holding the candidate
candidate_set(self, n_results) ==
    IF self.enable_weight_diagonal_mapping
    THEN candidate_modified(self,
             modify_innermost_input_mem_size(self, self.layer.core_allocation[1],
                                             self.user_spatial_mapping),
             n_results)
    ELSE conversion_stage_made(self, self.input_mem_size_updated, self.accelerator,
                               n_results)

\* lines 95-125: the body of the loop for the next candidate, up to the call
\* of the conversion stage's run()
candidate_started(self, n_results) ==
    candidate_set([self EXCEPT !.i = @ + 1,
                               !.user_spatial_mapping = self.user_spatial_mappings[self.i + 1],
                               !.layer.user_spatial_mapping =
                                   self.user_spatial_mappings[self.i + 1],
                               !.conversion_stages =
                                   layer_assigned(@, self.user_spatial_mappings[self.i + 1])],
                  n_results)

\* lines 126-128 without the accelerator being set back
recovered_never(self, cme) == cme

\* lines 126-128: cme.accelerator = original_accelerator
recovered(self, cme) ==
    IF self.enable_weight_diagonal_mapping /\ self.input_mem_size_updated
    THEN [cme EXCEPT !.accelerator = self.original_accelerator]
    ELSE cme

\* line 129 with the mapping of the first candidate in every tag
yielded_with_first(self, result) ==
    <<recovered(self, result[1]), <<self.user_spatial_mappings[1], result[2]>> >>

\* lines 126-129: yield cme, (user_spatial_mapping, extra_info)
yielded_with(self, result) ==
    <<recovered(self, result[1]), <<self.user_spatial_mapping, result[2]>> >>

\* the memory levels of a core: a register file for the activations that
\* serves the dimensions served, a register file for the weights, an SRAM
MemoryLevel(id, name, size, operands, served) ==
    [memory_instance |-> [id |-> id, name |-> name, size |-> size],
     operands |-> operands,
     port_alloc_raw |-> <<>>,
     served_dimensions |-> served,
     served_dimensions_vec |-> <<served>>]
Level_rf_I(served) == MemoryLevel(1, "rf_I", 8, <<"I1">>, served)
Level_rf_W == MemoryLevel(2, "rf_W", 8, <<"I2">>, {"D2"})
Level_sram == MemoryLevel(3, "sram", 64, <<"I1", "I2", "O">>, {"D1", "D2"})

\* two register files made with one MemoryInstance object, rf_1B
Level_rf_1B_I == MemoryLevel(1, "rf_1B", 8, <<"I1">>, {"D1"})
Level_rf_1B_W == MemoryLevel(1, "rf_1B", 8, <<"I2">>, {"D2"})

\* hierarchies whose innermost activation level serves no, one or both
\* dimensions of the array, one whose innermost levels hold no activation,
\* and two whose register files share their memory instance
MemoryHierarchies ==
    {[name |-> <<"memory_hierarchy">>,
      mem_level_list |-> <<Level_rf_I(served), Level_rf_W, Level_sram>>,
      inner |-> <<1, 2>>] : served \in {{}, {"D1"}, {"D1", "D2"}}}
    \cup {[name |-> <<"memory_hierarchy">>,
           mem_level_list |-> <<Level_rf_W, Level_sram>>,
           inner |-> <<1>>]}
    \cup {[name |-> <<"memory_hierarchy">>,
           mem_level_list |-> l,
           inner |-> <<1, 2>>] :
              l \in {<<Level_rf_1B_I, Level_rf_1B_W, Level_sram>>,
                     <<Level_rf_1B_W, Level_rf_1B_I, Level_sram>>}}

\* accelerators of two cores; the layers are allocated to core 0
MappingAccelerators ==
    {[name |-> <<"accelerator">>,
      cores |-> <<[id |-> 0,
                   operational_array |-> [dimensions |-> <<"D1", "D2">>],
                   memory_hierarchy |-> mh,
                   dataflows |-> <<>>],
                  [id |-> 1,
                   operational_array |-> [dimensions |-> <<"D1">>],
                   memory_hierarchy |->
                       [name |-> <<"memory_hierarchy">>,
                        mem_level_list |-> <<Level_sram>>,
                        inner |-> <<1>>],
                   dataflows |-> <<>>]>>] : mh \in MemoryHierarchies}

\* spatial mappings that assign both dimensions of the array
Mapping_OX_K(u) == << <<"D1", << <<dim_OX, u>> >> >>, <<"D2", << <<dim_K, 2>> >> >> >>
Mapping_K_C == << <<"D1", << <<dim_K, 2>> >> >>, <<"D2", << <<dim_C, 2>> >> >> >>
Mapping_OX_OY_K ==
    << <<"D1", << <<dim_OX, 2>>, <<dim_OY, 2>> >> >>, <<"D2", << <<dim_K, 2>> >> >> >>
CandidateMappings ==
    {Mapping_OX_K(u) : u \in 1..MaxUnroll} \cup {Mapping_K_C, Mapping_OX_OY_K}

\* what the user gives: both dimensions, one, or none
UserMappings == {Mapping_OX_K(2), << <<"D1", << <<dim_OX, 2>> >> >> >>, <<>>}

\* the lists of at most n candidates
RECURSIVE CandidateLists(_)
CandidateLists(n) ==
    IF n = 0 THEN {<<>>}
    ELSE CandidateLists(n - 1)
         \cup {Append(l, m) : l \in {x \in CandidateLists(n - 1) : Len(x) = n - 1},
                              m \in CandidateMappings}

\* a layer O = W * I, or O = W * W, as the stage sees it: OX and OY are
\* irrelevant to W
MappingLayer(core_allocation, user_spatial_mapping, constant_operands, input_operands) ==
    [class |-> "LayerNode",
     core_allocation |-> core_allocation,
     user_spatial_mapping |-> user_spatial_mapping,
     constant_operands |-> constant_operands,
     input_operands |-> input_operands,
     operand_loop_dim |->
         << <<op_O, [R |-> <<dim_K, dim_OX, dim_OY>>, IR |-> <<dim_C>>, PR |-> <<>>]>>,
            <<op_W, [R |-> <<dim_K, dim_C>>, IR |-> <<dim_OX, dim_OY>>, PR |-> <<>>]>> >>
         \o (IF op_I \in ToSet(input_operands)
             THEN << <<op_I, [R |-> <<dim_C, dim_OX, dim_OY>>, IR |-> <<dim_K>>,
                              PR |-> <<>>]>> >>
             ELSE <<>>),
     memory_operand_links |-> << <<op_O, "O">>, <<op_W, "I2">>, <<op_I, "I1">> >>]

MappingLayers ==
    {NoLayer, MappingLayer(<<>>, Mapping_OX_K(2), <<op_W>>, <<op_W, op_I>>)}
    \cup {MappingLayer(Some(0), m, c, i) :
              m \in UserMappings,
              c \in {<<>>, <<op_W>>, <<op_W, op_I>>},
              i \in {<<op_W, op_I>>, <<op_W, op_W>>}}

MappingKwargs ==
    {[class |-> "SpatialMappingGeneratorStage",
      accelerator |-> a, layer |-> l, enable_weight_diagonal_mapping |-> e] :
        a \in MappingAccelerators, l \in MappingLayers, e \in BOOLEAN}

InitMapping ==
    /\ layer_attrs = NoAttrs
    /\ node = NoNode
    /\ call = NoCall
    /\ kwargs \in MappingKwargs
    /\ stage = NoStage

IsMappingStage == stage.class = "SpatialMappingGeneratorStage"

\* SpatialMappingGeneratorStage(list_of_callables, accelerator=, layer=, ...)
SpatialMappingGeneratorStage_construct ==
    /\ stage.class = "none"
    /\ stage' = SpatialMappingGeneratorStage_init(kwargs)
    /\ UNCHANGED <<layer_attrs, node, call, kwargs>>

\* stage.modify_innermost_input_mem_size(core_id, user_spatial_mapping), on a
\* stage whose run() was not called yet
Call_modify_innermost_input_mem_size ==
    /\ IsMappingStage
    /\ stage.pc = "constructed"
    /\ call.op = "none"
    /\ \E user_spatial_mapping \in CandidateMappings :
          /\ call' = [op |-> "modify_innermost_input_mem_size",
                      args |-> <<stage.layer.core_allocation[1], user_spatial_mapping>>,
                      out |-> modify_innermost_input_mem_size(
                                  stage, stage.layer.core_allocation[1],
                                  user_spatial_mapping)]
          /\ stage' = IF call'.out.exc = ""
                      THEN [stage EXCEPT !.accelerator = call'.out.ret[3]]
                      ELSE stage
    /\ UNCHANGED <<layer_attrs, node, kwargs>>

\* lines 74-93: run() is called and asked for its first item
SpatialMappingGeneratorStage_run ==
    /\ IsMappingStage
    /\ stage.pc = "constructed"
    /\ call.op = "none"
    /\ \E generated \in CandidateLists(MaxCandidates) :
          stage' = run_started(stage,
                               get_core(stage.accelerator, stage.layer.core_allocation[1]),
                               generated)
    /\ UNCHANGED <<layer_attrs, node, call, kwargs>>

\* lines 95-125: the loop takes the next candidate
SpatialMappingGeneratorStage_next ==
    /\ IsMappingStage
    /\ stage.pc = "loop"
    /\ stage.i < Len(stage.user_spatial_mappings)
    /\ \E n_results \in 0..MaxResults : stage' = candidate_started(stage, n_results)
    /\ UNCHANGED <<layer_attrs, node, call, kwargs>>

\* lines 125-129: the run() of the conversion stage yields a result
SpatialMappingGeneratorStage_yield ==
    /\ IsMappingStage
    /\ stage.pc = "drain"
    /\ stage.results # <<>>
    /\ stage' = [stage EXCEPT !.yielded = <<yielded_with(stage, Head(stage.results))>>,
                              !.results = Tail(@)]
    /\ UNCHANGED <<layer_attrs, node, call, kwargs>>

\* line 125: the run() of the conversion stage is exhausted
SpatialMappingGeneratorStage_exhausted ==
    /\ IsMappingStage
    /\ stage.pc = "drain"
    /\ stage.results = <<>>
    /\ stage' = [stage EXCEPT !.pc = "loop"]
    /\ UNCHANGED <<layer_attrs, node, call, kwargs>>

\* line 95: no candidate is left, run() returns
SpatialMappingGeneratorStage_return ==
    /\ IsMappingStage
    /\ stage.pc = "loop"
    /\ stage.i = Len(stage.user_spatial_mappings)
    /\ stage' = [stage EXCEPT !.pc = "done"]
    /\ UNCHANGED <<layer_attrs, node, call, kwargs>>

NextMapping ==
    \/ SpatialMappingGeneratorStage_construct
    \/ Call_modify_innermost_input_mem_size
    \/ Return
    \/ SpatialMappingGeneratorStage_run
    \/ SpatialMappingGeneratorStage_next
    \/ SpatialMappingGeneratorStage_yield
    \/ SpatialMappingGeneratorStage_exhausted
    \/ SpatialMappingGeneratorStage_return

SpecMapping == InitMapping /\ [][NextMapping]_vars

----------------------------------------------------------------------------
(* Claims about SpatialMappingGeneratorStage, under SpecMapping            *)

\* run() was called and got past line 93, whether it is still running,
\* returned, or was left by an exception
Started ==
    /\ IsMappingStage
    /\ \/ stage.pc \in {"loop", "drain", "done"}
       \/ stage.pc = "error" /\ stage.i > 0

\* the dimensions of the operational array of the core the layer is
\* allocated to
ArrayDimensions ==
    UNION {ToSet(kwargs.accelerator.cores[c].operational_array.dimensions) :
               c \in {c \in 1..Len(kwargs.accelerator.cores) :
                          <<kwargs.accelerator.cores[c].id>> = kwargs.layer.core_allocation}}

\* the dimensions that the mapping the user gave assigns
UserAssigned ==
    {kwargs.layer.user_spatial_mapping[i][1] :
         i \in 1..Len(kwargs.layer.user_spatial_mapping)}

\* the mappings of the conversion stages made so far, in order
Converted ==
    [j \in 1..Len(stage.conversion_stages) |->
         stage.conversion_stages[j].layer.user_spatial_mapping]

\* C16: when the user mapping assigns every dimension of the operational
\* array of the allocated core, run() has exactly one candidate, the user
\* mapping: no UserSpatialMappingGenerator is run, at most one conversion
\* stage is made, for the user mapping, and run() returns after exactly one.
C16_FullMappingIsOnlyCandidate ==
    (Started /\ ArrayDimensions \subseteq UserAssigned) =>
        /\ stage.generator_runs = 0
        /\ stage.user_spatial_mappings = <<kwargs.layer.user_spatial_mapping>>
        /\ Len(Converted) <= 1
        /\ \A j \in 1..Len(Converted) : Converted[j] = kwargs.layer.user_spatial_mapping
        /\ stage.pc = "done" => Len(Converted) = 1

C16_Witness ==
    /\ Started
    /\ ArrayDimensions \subseteq UserAssigned
    /\ stage.pc = "done"
    /\ stage.yielded # <<>>
    /\ Converted = <<kwargs.layer.user_spatial_mapping>>

\* the user mapping leaves a dimension of the array of the core unassigned
Incomplete ==
    /\ kwargs.layer.class = "LayerNode"
    /\ ~IsNone(kwargs.layer.core_allocation)
    /\ ~(ArrayDimensions \subseteq UserAssigned)

\* one step of run() on an incomplete user mapping, as C17 has it
C17_Step ==
    (IsMappingStage /\ Incomplete /\ stage.class = stage'.class) =>
        \* the candidates are those of the one generator that was run
        /\ (stage.pc = "constructed" /\ stage'.pc = "loop") =>
              /\ stage'.generator_runs = 1
              /\ stage'.user_spatial_mappings = stage'.generated
              /\ stage'.i = 0
              /\ stage'.conversion_stages = <<>>
        /\ stage.pc # "constructed" =>
              /\ stage'.generator_runs = stage.generator_runs
              /\ stage'.generated = stage.generated
              /\ stage'.user_spatial_mappings = stage.generated
        \* a conversion stage is made for the next candidate in order, with a
        \* layer that holds it, when the results of the one before are
        \* exhausted
        /\ stage'.conversion_stages # stage.conversion_stages =>
              /\ stage.pc = "loop" /\ stage.results = <<>>
              /\ stage'.i = stage.i + 1
              /\ Len(stage.conversion_stages) = stage.i
              /\ Len(stage'.conversion_stages) = stage'.i
              /\ SubSeq(stage'.conversion_stages, 1, stage.i) = stage.conversion_stages
              /\ stage'.conversion_stages[stage'.i].layer.user_spatial_mapping
                     = stage.generated[stage'.i]
              /\ \A k \in 1..Len(stage'.results) :
                     stage'.results[k][1].mapping = stage.generated[stage'.i]
        \* no candidate is taken without a conversion stage, unless an
        \* exception leaves run()
        /\ (stage'.i # stage.i /\ stage'.pc # "error") =>
              stage'.conversion_stages # stage.conversion_stages
        \* the results are taken one at a time in the order of the conversion
        \* stage, and each is yielded with the candidate of that stage
        /\ (stage'.results # stage.results /\ stage'.i = stage.i) =>
              /\ stage.results # <<>>
              /\ stage'.results = Tail(stage.results)
              /\ stage'.yielded[1][1].nr = Head(stage.results)[1].nr
              /\ stage'.yielded[1][1].mapping = stage.generated[stage.i]
              /\ stage'.yielded[1][2] = <<stage.generated[stage.i], Head(stage.results)[2]>>
        /\ stage'.yielded # stage.yielded => stage'.results = Tail(stage.results)
        \* run() returns when every candidate had its conversion stage and
        \* nothing is left
        /\ stage'.pc = "done" =>
              /\ stage.results = <<>>
              /\ Converted = stage.generated

\* C17: when the user mapping does not assign every dimension of the array,
\* run() takes exactly the candidates that the UserSpatialMappingGenerator
\* yielded, each once and in that order: one conversion stage per candidate,
\* every result of a candidate yielded before the next candidate is taken,
\* each as (cme, (user_spatial_mapping, extra_info)) with its own candidate.
C17_GeneratedCandidatesInOrder == [][C17_Step]_vars

\* two different candidates had their conversion stage, and the last result
\* of the second was yielded with the second
C17_Witness ==
    /\ IsMappingStage
    /\ Incomplete
    /\ stage.pc = "done"
    /\ Len(stage.generated) = 2
    /\ stage.generated[1] # stage.generated[2]
    /\ Converted = stage.generated
    /\ stage.yielded # <<>>
    /\ stage.yielded[1][2][1] = stage.generated[2]

\* the layer given to the constructor is None or has no core allocation
NoCoreForLayer ==
    \/ kwargs.layer.class = "NoneType"
    \/ kwargs.layer.class = "LayerNode" /\ kwargs.layer.core_allocation = <<>>

Adapted ==
    /\ stage.conversion_stages # <<>>
    /\ stage.conversion_stages[Len(stage.conversion_stages)].accelerator
           # kwargs.accelerator

\* C19: the cme of every (cme, (user_spatial_mapping, extra_info)) that run()
\* yields has for accelerator the accelerator that the stage was constructed
\* with, whether or not the conversion stage of the candidate got an
\* accelerator with an enlarged memory.
C19_YieldedWithOriginalAccelerator ==
    (IsMappingStage /\ stage.yielded # <<>>) =>
        /\ stage.yielded[1][1].accelerator = kwargs.accelerator
        /\ stage.accelerator = kwargs.accelerator

\* a result of a conversion stage that got an enlarged memory was yielded
C19_Witness ==
    /\ IsMappingStage
    /\ stage.pc = "drain"
    /\ stage.yielded # <<>>
    /\ stage.input_mem_size_updated
    /\ Adapted
    /\ stage.yielded[1][2][1] = stage.user_spatial_mapping
    /\ stage.yielded[1][1].accelerator = kwargs.accelerator

\* modify_innermost_input_mem_size was called and its outcome is in call
IsAdapterCall == call.op = "modify_innermost_input_mem_size"

\* the input operands of the layer of the stage that are not its first
\* constant operand
NonConstantInputs ==
    {o \in ToSet(stage.layer.input_operands) :
         stage.layer.constant_operands = <<>> \/ o # stage.layer.constant_operands[1]}

\* C20: modify_innermost_input_mem_size never raises: when the layer has not
\* exactly one constant operand, or has no input operand other than the
\* constant one, it returns input_mem_size_updated = False, and whenever it
\* returns False it returns the accelerator of the stage with it.
C20_AdapterNeverRaises ==
    IsAdapterCall =>
        /\ call.out.exc = ""
        /\ (Len(stage.layer.constant_operands) # 1 \/ NonConstantInputs = {}) =>
              call.out.ret[1] = FALSE
        /\ call.out.ret[1] = FALSE => call.out.ret[2] = stage.accelerator

\* the calls that do return: more than one constant operand, no innermost
\* level for the activations, a level that serves two dimensions or none, a
\* scaling factor of 1, and a scaling factor above 1
C20_ReturnsWhenOneConstantOperand ==
    (IsAdapterCall /\ Len(stage.layer.constant_operands) >= 1 /\ NonConstantInputs # {}) =>
        /\ call.out.exc = ""
        /\ call.out.ret[1] = FALSE => call.out.ret[2] = stage.accelerator
        /\ call.out.ret[1] = TRUE => call.out.ret[2] # stage.accelerator

\* the adapter returned with input_mem_size_updated = True
Enlarged == IsAdapterCall /\ call.out.exc = "" /\ call.out.ret[1] = TRUE

\* the hierarchy of the core of the layer as the constructor got it, and the
\* hierarchy of the accelerator that the adapter returned
OriginalLevels == kwargs.accelerator.cores[1].memory_hierarchy.mem_level_list
AdaptedLevels == call.out.ret[2].cores[1].memory_hierarchy.mem_level_list

\* the memory operand of the activations, and the position of the innermost
\* level that holds it
ActivationMemOp ==
    DictGet(kwargs.layer.memory_operand_links,
            CHOOSE o \in NonConstantInputs : TRUE)
ActivationLevel ==
    CHOOSE l \in ToSet(kwargs.accelerator.cores[1].memory_hierarchy.inner) :
        ActivationMemOp \in ToSet(OriginalLevels[l].operands)

\* the product of the unroll factors that the mapping gives, on the dimension
\* of the array, to the layer dimensions irrelevant to the constant operand
RECURSIVE ProductOfIrrelevant(_)
ProductOfIrrelevant(items) ==
    IF items = <<>> THEN 1
    ELSE (IF Head(items)[1]
                 \in ToSet(DictGet(kwargs.layer.operand_loop_dim,
                                   kwargs.layer.constant_operands[1]).IR)
          THEN Head(items)[2] ELSE 1) * ProductOfIrrelevant(Tail(items))
FactorOf(mapping) ==
    LET served == CHOOSE d \in OriginalLevels[ActivationLevel].served_dimensions : TRUE
    IN IF DictHas(mapping, served) THEN ProductOfIrrelevant(DictGet(mapping, served))
       ELSE 1

\* C21: when the factor is above 1, the hierarchy of the adapted accelerator
\* has the levels of the original in the same order; the innermost level that
\* holds the activations has its size multiplied by the factor, and every
\* other level has the size, operands, port allocation and served dimensions
\* it had.
C21_OnlyActivationLevelEnlarged ==
    Enlarged =>
        /\ Len(AdaptedLevels) = Len(OriginalLevels)
        /\ \A l \in 1..Len(OriginalLevels) :
              /\ AdaptedLevels[l].operands = OriginalLevels[l].operands
              /\ AdaptedLevels[l].port_alloc_raw = OriginalLevels[l].port_alloc_raw
              /\ AdaptedLevels[l].served_dimensions = OriginalLevels[l].served_dimensions
              /\ AdaptedLevels[l].memory_instance.name = OriginalLevels[l].memory_instance.name
              /\ AdaptedLevels[l].memory_instance.size =
                     IF l = ActivationLevel
                     THEN OriginalLevels[l].memory_instance.size * FactorOf(call.args[2])
                     ELSE OriginalLevels[l].memory_instance.size

\* the same, for the hierarchies in which no two levels were made with the
\* same MemoryInstance object
C21_EnlargedWhenNoInstanceShared ==
    (\A l1, l2 \in 1..Len(OriginalLevels) :
         OriginalLevels[l1].memory_instance.id = OriginalLevels[l2].memory_instance.id
             => l1 = l2)
        => C21_OnlyActivationLevelEnlarged

\* the size of the innermost level of the activations in an accelerator
ActivationSizeIn(accelerator) ==
    accelerator.cores[1].memory_hierarchy.mem_level_list[ActivationLevel]
        .memory_instance.size

\* C22: adaptation does not compound. Whatever candidates the stage has
\* handled, and whatever calls of the adapter were made, the accelerator of
\* the stage is as the constructor got it, and the accelerator adapted for a
\* candidate has, for the level of the activations, the original size times
\* the factor of that candidate alone.
C22_NoCompounding ==
    IsMappingStage =>
        /\ stage.accelerator = kwargs.accelerator
        /\ stage.original_accelerator = kwargs.accelerator
        /\ \A j \in 1..Len(stage.conversion_stages) :
              stage.conversion_stages[j].accelerator # kwargs.accelerator =>
                  ActivationSizeIn(stage.conversion_stages[j].accelerator)
                      = ActivationSizeIn(kwargs.accelerator) * FactorOf(Converted[j])
        /\ Enlarged =>
              ActivationSizeIn(call.out.ret[2])
                  = ActivationSizeIn(kwargs.accelerator) * FactorOf(call.args[2])

\* two candidates with the same factor were adapted one after the other, and
\* their conversion stages got the same enlarged size
C22_Witness ==
    /\ IsMappingStage
    /\ Len(stage.conversion_stages) = 2
    /\ stage.conversion_stages[1].accelerator # kwargs.accelerator
    /\ stage.conversion_stages[2].accelerator # kwargs.accelerator
    /\ FactorOf(Converted[1]) = 2
    /\ FactorOf(Converted[2]) = 2
    /\ ActivationSizeIn(stage.conversion_stages[2].accelerator)
           = 2 * ActivationSizeIn(kwargs.accelerator)

\* a step of run() that yields a result of a candidate from the generator
C23_Step ==
    (/\ IsMappingStage /\ stage.pc = "drain" /\ stage.generator_runs > 0
     /\ stage.results # <<>> /\ stage'.results = Tail(stage.results)) =>
        stage'.generator_pulled <= stage'.i

\* C23: the candidates are generated lazily: whenever run() yields a result,
\* where its consumer may stop, the UserSpatialMappingGenerator has been
\* asked for no more mappings than the candidates taken so far, the last of
\* which is the one whose result is yielded.
C23_NoCandidateAheadOfConsumption == [][C23_Step]_vars

\* the results of the first of two candidates are being yielded, and both
\* candidates were taken from the generator already
C23_AllGeneratedAtFirstYield ==
    /\ IsMappingStage
    /\ stage.pc = "drain"
    /\ stage.yielded # <<>>
    /\ stage.i = 1
    /\ Len(stage.generated) = 2
    /\ stage.generator_pulled = 2

\* C24: when the user mapping assigns every dimension of the array, run()
\* does not adapt the accelerator, whatever enable_weight_diagonal_mapping
\* is: the conversion stage of the one candidate gets the accelerator the
\* stage was constructed with, and no exception of the adapter leaves run().
C24_FullMappingNotAdapted ==
    (Started /\ ArrayDimensions \subseteq UserAssigned) =>
        /\ \A j \in 1..Len(stage.conversion_stages) :
              stage.conversion_stages[j].accelerator = kwargs.accelerator
        /\ ~stage.input_mem_size_updated
        /\ stage.pc # "error"

\* the same when enable_weight_diagonal_mapping is off
C24_NotAdaptedWhenDisabled ==
    (Started /\ ~kwargs.enable_weight_diagonal_mapping) =>
        /\ \A j \in 1..Len(stage.conversion_stages) :
              stage.conversion_stages[j].accelerator = kwargs.accelerator
        /\ ~stage.input_mem_size_updated
        /\ stage.pc # "error"

\* C25: the conversion stage of every candidate has a layer of its own, a
\* copy of the layer of the stage, whose user_spatial_mapping is that
\* candidate, and stays so while the stage sets the later candidates in its
\* own layer.
C25_ConversionLayerKeepsCandidate ==
    IsMappingStage =>
        \A j \in 1..Len(stage.conversion_stages) :
            /\ stage.conversion_stages[j].layer.user_spatial_mapping
                   = stage.user_spatial_mappings[j]
            /\ stage.conversion_stages[j].layer
                   = [kwargs.layer EXCEPT
                          !.user_spatial_mapping = stage.user_spatial_mappings[j]]

\* the second of two different candidates is set in the layer of the stage,
\* and the layer of the first conversion stage still holds the first
C25_Witness ==
    /\ IsMappingStage
    /\ stage.pc = "done"
    /\ Len(stage.conversion_stages) = 2
    /\ stage.user_spatial_mappings[1] # stage.user_spatial_mappings[2]
    /\ stage.layer.user_spatial_mapping = stage.user_spatial_mappings[2]
    /\ stage.conversion_stages[1].layer.user_spatial_mapping
           = stage.user_spatial_mappings[1]

\* C29: when the factor is above 1 the adapter returns a new accelerator,
\* named as the original with '-supporting-diagonal-map' appended, that holds
\* one core only: a core with the id and the operational array of the core of
\* the layer, and with the enlarged memory hierarchy.
C29_AdaptedAcceleratorHasOneRebuiltCore ==
    Enlarged =>
        /\ call.out.ret[2] # kwargs.accelerator
        /\ call.out.ret[2].name = kwargs.accelerator.name \o <<"-supporting-diagonal-map">>
        /\ Len(call.out.ret[2].cores) = 1
        /\ <<call.out.ret[2].cores[1].id>> = kwargs.layer.core_allocation
        /\ call.out.ret[2].cores[1].operational_array
               = kwargs.accelerator.cores[1].operational_array
        /\ ActivationSizeIn(call.out.ret[2])
               = ActivationSizeIn(kwargs.accelerator) * FactorOf(call.args[2])
        /\ FactorOf(call.args[2]) > 1

\* the adapter enlarged the activation register file of core 0 of an
\* accelerator of two cores by the factor 4 of the mapping OX: 2, OY: 2
C29_Witness ==
    /\ Enlarged
    /\ Len(kwargs.accelerator.cores) = 2
    /\ FactorOf(call.args[2]) = 4
    /\ Len(call.out.ret[2].cores) = 1

----------------------------------------------------------------------------
(***************************************************************************)
(* DNNWorkload (src/zigzag/workload/DNNWorkload.py)                        *)
(*                                                                         *)
(* The workload definition is a dict from layer id to the dict of the      *)
(* layer's attributes, and the mapping a dict from a layer name, an        *)
(* operator type or 'default' to a dict of attributes. The graph is the    *)
(* list of its nodes in the order they were added and the set of its       *)
(* edges, an edge being the pair of the ids of its two LayerNodes.         *)
(***************************************************************************)

\* bound: a list of parents has at most MaxParents layer ids; a workload
\* definition has at most MaxNodes layers
MaxParents == 1

\* dict.get(key, default)
get(d, key, default) == IF DictHas(d, key) THEN DictGet(d, key) ELSE default

\* line 22: f"Layer {layer_id}"
default_name(layer_id) == <<"L", "a", "y", "e", "r", " ">> \o str(layer_id)

\* lines 25-26, 28-29, 32-33: every attribute of attrs is set on the layer
RECURSIVE updated(_, _)
updated(layer, attrs) ==
    IF attrs = <<>> THEN layer
    ELSE updated(DictSet(layer, attrs[1][1], attrs[1][2]), Tail(attrs))

default_key == <<"d", "e", "f", "a", "u", "l", "t">>

\* lines 22-33: the attributes of the mapping are set on the layer: those of
\* its name, else those of its operator type, else those of 'default'.
\* operator_type is a list of at most one value, empty for None
mapped(layer, layer_name, operator_type, mapping) ==
    IF DictHas(mapping, layer_name)
    THEN Ok(updated(layer, DictGet(mapping, layer_name)))
    ELSE IF operator_type # <<>> /\ DictHas(mapping, operator_type[1])
    THEN Ok(updated(layer, DictGet(mapping, operator_type[1])))
    ELSE IF DictHas(mapping, default_key)
    THEN Ok(updated(layer, DictGet(mapping, default_key)))
    ELSE Raise("KeyError")

\* lines 36-37: LayerNode(layer_id, layer_attributes, node_name=layer_name)
LayerNode_of(layer_id, layer, layer_name) ==
    [class |-> "LayerNode", id |-> layer_id, name |-> layer_name, layer_attrs |-> layer]

\* Workload.add_workload_node: the node is added to the graph
add_workload_node(self, layer_node) ==
    [self EXCEPT !.nodes = Append(@, layer_node)]

\* Workload.add_workload_edges_from: the edges are added to the graph
add_workload_edges_from(self, edges) ==
    [self EXCEPT !.edges = @ \cup ToSet(edges)]

\* line 45: the parent lists of the layer's operand_source, concatenated in
\* the order of the operands
RECURSIVE parents_of(_)
parents_of(operand_source) ==
    IF operand_source = <<>> THEN <<>>
    ELSE operand_source[1][2] \o parents_of(Tail(operand_source))

\* line 39: layer_id_to_obj[layer_id] = layer_node
layer_id_to_obj_with(self, layer_id) == self.layer_id_to_obj \cup {layer_id}

\* lines 44-50: the edges from the parents of the layer; the assertion of
\* line 47 fails on a parent id that is not in layer_id_to_obj
edges_to(layer_id_to_obj, layer_id, parents) ==
    IF \E i \in 1..Len(parents) : parents[i] \notin layer_id_to_obj
    THEN Raise("AssertionError")
    ELSE Ok([i \in 1..Len(parents) |-> <<parents[i], layer_id>>])

\* lines 38-51: the node is registered and added, then its edges
layer_added(self, layer_node, edges) ==
    IF edges.exc # "" THEN edges
    ELSE Ok(add_workload_edges_from(
                [add_workload_node(self, layer_node)
                    EXCEPT !.layer_id_to_obj = layer_id_to_obj_with(self, layer_node.id),
                           !.layer_node_list = Append(@, layer_node)],
                edges.ret))

\* lines 22-51: one layer of the workload definition; m is the outcome of
\* setting the attributes of the mapping
layer_mapped(self, layer_id, layer_name, m) ==
    IF m.exc # "" THEN m
    ELSE layer_added(self, LayerNode_of(layer_id, m.ret, layer_name),
                     edges_to(layer_id_to_obj_with(self, layer_id), layer_id,
                              parents_of(get(m.ret, "operand_source", <<>>))))

one_layer(self, layer_id, layer, mapping) ==
    layer_mapped(self, layer_id, get(layer, "name", default_name(layer_id)),
                 mapped(layer, get(layer, "name", default_name(layer_id)),
                        IF DictHas(layer, "operator_type")
                        THEN <<DictGet(layer, "operator_type")>> ELSE <<>>,
                        mapping))

\* lines 18-51: the loop over workload.items(); r is the outcome of the
\* layers before the i-th
RECURSIVE layers_from(_, _, _, _)
layers_from(workload, mapping, i, r) ==
    IF r.exc # "" \/ i > Len(workload) THEN r
    ELSE layers_from(workload, mapping, i + 1,
                     one_layer(r.ret, workload[i][1], workload[i][2], mapping))

\* lines 9-51: DNNWorkload(workload, mapping)
DNNWorkload_init(workload, mapping) ==
    layers_from(workload, mapping, 1,
        Ok([class |-> "DNNWorkload", nodes |-> <<>>, edges |-> {},
            layer_id_to_obj |-> {}, layer_node_list |-> <<>>]))

\* WorkloadStage.run, line 25, nx.topological_sort(self.workload): the orders
\* of the nodes in which every edge leads from an earlier to a later node
TopologicalOrders(workload) ==
    {order \in [1..Len(workload.nodes) -> 1..Len(workload.nodes)] :
        /\ \A i, j \in 1..Len(order) : order[i] = order[j] => i = j
        /\ \A e \in workload.edges :
              \E i, j \in 1..Len(order) :
                 /\ i < j
                 /\ workload.nodes[order[i]].id = e[1]
                 /\ workload.nodes[order[j]].id = e[2]}

\* the ids of the nodes in one of these orders; networkx raises
\* NetworkXUnfeasible when the graph has a cycle
topological_sort(workload, order) ==
    IF TopologicalOrders(workload) = {} THEN Raise("NetworkXUnfeasible")
    ELSE Ok([i \in 1..Len(order) |-> workload.nodes[order[i]].id])

----------------------------------------------------------------------------
(* SpecDNN: a DNNWorkload is built from a definition, then sorted *)

name_conv == <<"c", "o", "n", "v">>
type_Conv == <<"C", "o", "n", "v">>
type_Pool == <<"P", "o", "o", "l">>

\* the lists of at most n layer ids
RECURSIVE ParentLists(_)
ParentLists(n) ==
    IF n = 0 THEN {<<>>}
    ELSE ParentLists(n - 1)
         \cup {Append(l, id) : l \in {x \in ParentLists(n - 1) : Len(x) = n - 1},
                               id \in 0..(MaxNodes - 1)}

\* a layer without operand_source, or with a constant operand W and an
\* operand I that comes from the layers of a list
OperandSources ==
    {<<>>} \cup {<< <<"operand_source", << <<op_W, <<>> >>, <<op_I, pl>> >> >> >> :
                    pl \in ParentLists(MaxParents)}

\* a layer with a name and an operator type, or with neither
LayerDicts(named) ==
    {(IF named THEN << <<"name", name_conv>>, <<"operator_type", type_Conv>> >> ELSE <<>>)
     \o operand_source : operand_source \in OperandSources}

\* the workload definition of the layers with the ids, in that order
WorkloadDict(ids, layers) == [i \in 1..Len(ids) |-> <<ids[i], layers[i]>>]

DistinctIds(ids) == \A i, j \in 1..Len(ids) : ids[i] = ids[j] => i = j

\* a mapping for the layer named 'Layer 0' and a default, and a mapping for
\* the operator type 'Conv' or 'Pool' without a default
Mappings ==
    {<< <<default_name(0), << <<"core_allocation", 2>> >> >>,
        <<default_key, << <<"core_allocation", 1>> >> >> >>,
     << <<type_Conv, << <<"core_allocation", 3>> >> >> >>,
     << <<type_Pool, << <<"core_allocation", 3>> >> >> >>}

\* a definition of at most MaxNodes layers with distinct ids, in any order
InitDNN ==
    /\ layer_attrs = NoAttrs
    /\ node = NoNode
    /\ call = NoCall
    /\ stage = NoStage
    /\ \E n \in 1..MaxNodes, named \in BOOLEAN, m \in Mappings :
          \E ids \in [1..n -> 0..(MaxNodes - 1)], layers \in [1..n -> LayerDicts(named)] :
             /\ DistinctIds(ids)
             /\ kwargs = [class |-> "DNNWorkload",
                          workload |-> WorkloadDict(ids, layers), mapping |-> m]

\* DNNWorkload(workload, mapping)
DNNWorkload_construct ==
    /\ kwargs.class = "DNNWorkload"
    /\ node.status = "none"
    /\ LET r == DNNWorkload_init(kwargs.workload, kwargs.mapping) IN
       node' = IF r.exc # "" THEN [status |-> "error", exc |-> r.exc]
               ELSE [status |-> "constructed", exc |-> ""] @@ r.ret
    /\ UNCHANGED <<layer_attrs, call, kwargs, stage>>

\* WorkloadStage.run starts on the workload: nx.topological_sort(self.workload)
Call_topological_sort ==
    /\ node.status = "constructed"
    /\ node.class = "DNNWorkload"
    /\ call.op = "none"
    /\ \E order \in IF TopologicalOrders(node) = {}
                    THEN {<<>>} ELSE TopologicalOrders(node) :
          call' = [op |-> "topological_sort", args |-> <<>>,
                   out |-> topological_sort(node, order)]
    /\ UNCHANGED <<layer_attrs, node, kwargs, stage>>

NextDNN == DNNWorkload_construct \/ Call_topological_sort \/ Return

SpecDNN == InitDNN /\ [][NextDNN]_vars

----------------------------------------------------------------------------
(* Claims about DNNWorkload, checked under SpecDNN *)

IsWorkload == node.status = "constructed" /\ node.class = "DNNWorkload"

\* the position of the layer with that id in the workload definition, 0 when
\* the definition has no such layer
DefinedAt(layer_id) ==
    IF \E i \in 1..Len(kwargs.workload) : kwargs.workload[i][1] = layer_id
    THEN CHOOSE i \in 1..Len(kwargs.workload) : kwargs.workload[i][1] = layer_id
    ELSE 0

\* the layer ids that the i-th layer of the definition names as its parents
ParentsAt(i) == ToSet(parents_of(get(kwargs.workload[i][2], "operand_source", <<>>)))

\* C28: the graph that DNNWorkload builds has no cycle: every edge leads from
\* a layer defined strictly earlier in the workload definition to a layer
\* defined later, and no graph is built from a definition in which a layer
\* names as parent a layer that is not defined strictly before it.
C28_EdgesFromEarlierLayers ==
    IsWorkload =>
        /\ \A e \in node.edges :
              DefinedAt(e[1]) > 0 /\ DefinedAt(e[1]) < DefinedAt(e[2])
        /\ \A i \in 1..Len(kwargs.workload) : \A parent_id \in ParentsAt(i) :
              DefinedAt(parent_id) > 0 /\ DefinedAt(parent_id) < i
        /\ TopologicalOrders(node) # {}

\* every edge leads from a layer defined earlier, or from the layer itself
C28_EdgesFromEarlierOrSameLayer ==
    IsWorkload =>
        /\ \A e \in node.edges :
              DefinedAt(e[1]) > 0 /\ DefinedAt(e[1]) <= DefinedAt(e[2])
        /\ \A i \in 1..Len(kwargs.workload) : \A parent_id \in ParentsAt(i) :
              DefinedAt(parent_id) > 0 /\ DefinedAt(parent_id) <= i
        /\ (TopologicalOrders(node) = {} <=> \E e \in node.edges : e[1] = e[2])

\* a layer that names itself as parent: the graph is built with a self-loop,
\* and the topological sort fails
C28_SelfLoopBuilt ==
    /\ IsWorkload
    /\ \E e \in node.edges : e[1] = e[2]
    /\ call.op = "topological_sort"
    /\ call.out.exc = "NetworkXUnfeasible"

=============================================================================
